---------------------------- MODULE Spec2Model ----------------------------
(***************************************************************************)
(* Transient engine and Newton loop of MNA3.c (main, lines 456-828).       *)
(*                                                                         *)
(* Times (t, dt, dt1, dta) are exact rationals counted in units of         *)
(* tempo/(ntotal*1000), so that dt1 = tempo/ntotal is 1000 units and the   *)
(* startup step dt1*inicial is 1 unit.  Errors are counted in units of     *)
(* 1e-7 (TOLE).  The numerical content of the solution vectors is not      *)
(* computed: en and et record where their content came from (the initial   *)
(* zero guess, a linear solve of step n, or a random re-seed in step n).   *)
(* The statistics counters (max_iter, max_reinicios, randomizacoes,        *)
(* t_max_iter, t_ult_rand) are written but never read by the engine and    *)
(* are left out.                                                           *)
(*                                                                         *)
(* Six specifications share the module:                                    *)
(*   Spec      - the transient engine and its Newton loop, as above;       *)
(*   SpecParse - the netlist reader and the auxiliary-current pass         *)
(*               (main, lines 241-399, and numero);                        *)
(*   SpecIter  - one Newton pass with its numerical content in exact       *)
(*               rational arithmetic: stamps, resolversistema, the copy of *)
(*               the solution to en and the random re-seed, at step n=0.   *)
(*               Here en, et and erro_max hold numbers, Yn is the memory   *)
(*               of the array Yn[MAX_NOS][MAX_NOS], and the counters       *)
(*               iteracoes, reinicios, solves and the rows written are     *)
(*               those of the engine.                                      *)
(*   SpecTran  - the time steps of linear circuits with numbers: the       *)
(*               companion models of C, L and K, the values of the         *)
(*               sources and resolversistema, under each integration rule; *)
(*   SpecNewton - the time, internal-step and Newton-Raphson loops of      *)
(*               main in Mna.cpp (lines 89-223), with their counters;      *)
(*   SpecMake  - MakeNetList of MnaFunctions.cpp filling the array of      *)
(*               Element from the file, and the first call of              *)
(*               SystemOfEquationBackward on that array.                   *)
(* Each specification leaves the other variables at rest.                  *)
(***************************************************************************)
EXTENDS Integers, Sequences, FiniteSets, TLC

(* ------------------------------ bounds --------------------------------- *)
\* number of time steps a run of the model solves at most
MaxSteps == 3

(* ------------------------- program constants --------------------------- *)
MAX_IT == 100
TOLE == 1
InicialDen == 1000
RestartEvery == 20
MaxReinicios == 10
MaxPontos == 100000
metodo == 3
LONG_MAX == 2147483647
MAX_ELEM == 100
MAX_NOS == 50

(* ------------------------------ inputs --------------------------------- *)
\* element kinds (first letter of the element name) used by the netlists
Netlists ==
  { <<"R">>, <<"R", "C">>, <<"C", "X">>,
    <<"D", "R">>, <<"C", "Q">>, <<"X", "M", "C">> }

TempoValues == {-1, 0, 3}
PontosValues == {-1, 0, 1, 2, 100000, 100001}
PassosValues == {0, 1, 2, 30000, 50000}
\* erro_max of one iteration, in units of 1e-7
ErrValues == {0, 1, 2}

VARIABLES
  pc,          \* position of main
  netlist,     \* element kinds, netlist[1..ne]
  nao_linear,  \* 1 when a D, Q or M was read
  tempo, npontos, npassos, ntotal,
  dt1, dt, dta, t,
  n,           \* time step index
  iteracoes, reinicios, primeira, erro_max,
  en, et,      \* current estimate and last accepted solution
  p3,          \* companion scratch of each element: step of its last write + 1
  rows,        \* rows written to the output file
  solves,      \* stamp+solve iterations started in the current step
  p3writes,    \* writes of p3 of each element in the current step
  dtlog,       \* per step solved so far: dt and dta its stamps used
  \* --- netlist reader (SpecParse)
  ppc,         \* position of the reader
  arquivo,     \* lines of the netlist file not yet read
  ne, nv, nn,  \* elements, variables, nodes
  lista,       \* names of the variables, lista[0..nv]
  elem,        \* the array netlist[1..] of element records
  chamadas,    \* the calls of numero made so far
  lidos,       \* element lines (comments excluded) taken from the file
  \* --- one Newton pass with numbers (SpecIter)
  ipc,         \* position inside the pass
  Yn,          \* the system, Yn[0..nv+1][0..nv+1]
  ordem,       \* order in which the element stamps are applied
  feitos,      \* number of stamps applied
  gi,          \* pivot column of resolversistema
  hist,        \* what the pass has done: system as assembled, pivots used
  \* --- time marching with numbers (SpecTran)
  regra,       \* the value of the global metodo in the build that runs
  \* --- Mna.cpp: the time and Newton loops of main (SpecNewton)
  gpc,         \* position of main
  NumberOfGuesses, NumberOfExecutionNewtonRaphson,
  internalStep, MaxInternalStep,
  tolerance,
  NoLinearCircuit, Internal_Step, Tempo_Final,   \* fields of PSPICE
  ponto,       \* t counted in output steps, t = ponto * PSPICE.Step
  \* --- MnaFunctions.cpp: MakeNetList and SystemOfEquationBackward (SpecMake)
  mpc,         \* position inside the two functions
  NetListFile, \* lines of the file not yet read
  NetList,     \* the array of Element, from index 0
  Current_JX, NumberOfElements, NumberOfVariables,
  acessos,     \* indices used so far to access ParametersValue
  pastEnd,     \* what the build does with a store past ParametersValue
  B,           \* the right-hand side under construction
  deltaT,      \* the step SystemOfEquationBackward is called with
  A,           \* the local matrix A of SystemOfEquationBackward
  PSPICE       \* the fields Step, BE, UIC, FistLineOfOutputFile of PSPICE

engineVars == <<pc, netlist, nao_linear, tempo, npontos, npassos, ntotal,
                dt1, dt, dta, t, n, iteracoes, reinicios, primeira,
                erro_max, et, p3, rows, solves, p3writes, dtlog>>
parseVars == <<ppc, arquivo, ne, nn, lista, chamadas, lidos>>
sharedVars == <<nv, elem>>
newtonVars == <<gpc, NumberOfGuesses, NumberOfExecutionNewtonRaphson,
                internalStep, MaxInternalStep, tolerance, Internal_Step,
                Tempo_Final, ponto>>
makeVars == <<mpc, NetListFile, NetList, Current_JX, NumberOfElements,
              NumberOfVariables, acessos, pastEnd, B, deltaT, A, PSPICE>>
mnaVars == <<newtonVars, makeVars, NoLinearCircuit>>
iterVars == <<ipc, Yn, ordem, feitos, gi, hist, regra, mnaVars>>

vars == <<pc, netlist, nao_linear, tempo, npontos, npassos, ntotal,
          dt1, dt, dta, t, n, iteracoes, reinicios, primeira, erro_max,
          en, et, p3, rows, solves, p3writes, dtlog,
          ppc, arquivo, ne, nv, nn, lista, elem, chamadas, lidos,
          ipc, Yn, ordem, feitos, gi, hist, regra,
          gpc, NumberOfGuesses, NumberOfExecutionNewtonRaphson, internalStep,
          MaxInternalStep, tolerance, NoLinearCircuit, Internal_Step,
          Tempo_Final, ponto,
          mpc, NetListFile, NetList, Current_JX, NumberOfElements,
          NumberOfVariables, acessos, pastEnd, B, deltaT, A, PSPICE>>

(* ----------------------------- helpers --------------------------------- *)
\* line 324, 339, 353: nao_linear=1 on every D, M and Q read
RECURSIVE NaoLinear(_)
NaoLinear(nl) ==
  IF nl = <<>> THEN 0
  ELSE IF Head(nl) \in {"D", "M", "Q"} THEN 1
  ELSE NaoLinear(Tail(nl))

\* line 456
ParamsInvalid(T, P, S) == T <= 0 \/ P <= 0 \/ S <= 0 \/ P > MaxPontos

\* a*b does not fit a long (a, b > 0)
Overflows(a, b) == a > LONG_MAX \div b

\* two's complement sum of two longs
AddWrap(a, b) ==
  IF a >= 0 /\ b >= 0 /\ a > LONG_MAX - b
    THEN (a - LONG_MAX - 1) + (b - LONG_MAX - 1)
  ELSE IF a < 0 /\ b < 0 /\ a < (-LONG_MAX - 1) - b
    THEN (a + LONG_MAX + 1) + (b + LONG_MAX + 1)
  ELSE a + b

\* two's complement product of two longs, a >= 0
RECURSIVE MulWrap(_, _)
MulWrap(a, b) ==
  IF a = 0 THEN 0
  ELSE LET h == MulWrap(a \div 2, b)
           d == AddWrap(h, h)
       IN IF a % 2 = 1 THEN AddWrap(d, b) ELSE d

\* line 464: dt=dt1*inicial
StartupDt(d1) == d1 \div InicialDen

\* the iteration cap tested against the restart period instead of MAX_IT
IterLimit_early(it) == it > RestartEvery

\* the iteration cap never tested
IterLimit_never(it) == FALSE

\* line 777
IterLimit(it) == it > MAX_IT

\* line 787
RestartDue(it) == it > RestartEvery

\* line 788
RestartAllowed(r) == r <= MaxReinicios

\* the loop test without the nao_linear flag
LoopAgain_always(nl, e) == e > TOLE

\* line 798
LoopAgain(nl, e) == nl # 0 /\ e > TOLE

\* lines 494, 557, 567, 578: p3 of a C (trapezoidal) or X is written
WritesP3(tipo, prim) ==
  \/ tipo = "C" /\ ~(metodo < 3) /\ prim # 0
  \/ tipo = "X" /\ prim # 0

\* primeira never cleared
NextPrimeira_kept(prim) == prim

\* line 796
NextPrimeira(prim) == 0

\* line 814
EmitsRow(k, S) == k % S = 0

\* line 819
NextDta(d, d1) == d

\* t advanced before dt is replaced by dt1
NextT_old(tt, d, d1) == tt + d

\* lines 820-821: dt=dt1; t+=dt;
NextT(tt, d, d1) == tt + d1

Zero == [kind |-> "zero", step |-> 0]
Solved(k) == [kind |-> "solve", step |-> k]
Random(k) == [kind |-> "rand", step |-> k]

(* ------------------------------ Init ----------------------------------- *)
\* the reader at rest
ParseIdle ==
  /\ ppc = "idle" /\ arquivo = <<>> /\ ne = 0 /\ nv = 0 /\ nn = 0
  /\ lista = <<>> /\ elem = <<>> /\ chamadas = <<>> /\ lidos = 0

\* the loops of Mna.cpp at rest
NewtonIdle ==
  /\ gpc = "idle" /\ NumberOfGuesses = 0
  /\ NumberOfExecutionNewtonRaphson = 0
  /\ internalStep = 0 /\ MaxInternalStep = 0 /\ tolerance = <<>>
  /\ Internal_Step = 0 /\ Tempo_Final = 0 /\ ponto = 0

\* MakeNetList and SystemOfEquationBackward at rest
MakeIdle ==
  /\ mpc = "idle" /\ NetListFile = <<>> /\ NetList = <<>>
  /\ Current_JX = 0 /\ NumberOfElements = 0 /\ NumberOfVariables = 0
  /\ acessos = {} /\ pastEnd = "none" /\ B = <<>> /\ deltaT = <<>>
  /\ A = <<>> /\ PSPICE = <<>>

\* the numerical pass at rest
IterIdle ==
  /\ ipc = "idle" /\ Yn = <<>> /\ ordem = <<>> /\ feitos = 0 /\ gi = 0
  /\ hist = <<>>
  /\ regra = metodo
  /\ NewtonIdle /\ MakeIdle /\ NoLinearCircuit = 0

Init ==
  /\ pc = "read"
  /\ netlist = <<>>
  /\ nao_linear = 0
  /\ tempo = 0 /\ npontos = 0 /\ npassos = 0 /\ ntotal = 0
  /\ dt1 = 0 /\ dt = 0 /\ dta = 0 /\ t = 0
  /\ n = 0
  /\ iteracoes = 0 /\ reinicios = 0 /\ primeira = 0 /\ erro_max = 0
  /\ en = Zero /\ et = Zero
  /\ p3 = <<>>
  /\ rows = <<>>
  /\ solves = 0
  /\ p3writes = <<>>
  /\ dtlog = <<>>
  /\ ParseIdle
  /\ IterIdle

(* ----------------------------- actions --------------------------------- *)
\* lines 241-368: the netlist is read
ReadNetlist ==
  /\ pc = "read"
  /\ \E nl \in Netlists :
       /\ netlist' = nl
       /\ nao_linear' = NaoLinear(nl)
       /\ p3' = [i \in 1..Len(nl) |-> 0]
       /\ p3writes' = [i \in 1..Len(nl) |-> 0]
  /\ pc' = "params"
  /\ UNCHANGED <<tempo, npontos, npassos, ntotal, dt1, dt, dta, t, n,
                 iteracoes, reinicios, primeira, erro_max, en, et, rows,
                 solves, dtlog>>
  /\ UNCHANGED <<parseVars, sharedVars, iterVars>>

\* lines 442-468: parameters read and checked, engine initialised.
\* ntotal=npassos*npontos (line 460) is a signed long product: when it does
\* not fit, the behaviour is undefined and the outcome is either the two's
\* complement wrap (the plain builds) or a trap (overflow-checking builds).
ReadParams ==
  /\ pc = "params"
  /\ \E T \in TempoValues, P \in PontosValues, S \in PassosValues,
        trap \in BOOLEAN :
       /\ tempo' = T /\ npontos' = P /\ npassos' = S
       /\ IF ParamsInvalid(T, P, S)
            THEN /\ pc' = "invalid"
                 /\ UNCHANGED <<ntotal, dt1, dt, t, n, en>>
          ELSE IF Overflows(S, P) /\ trap
            THEN /\ pc' = "trap"
                 /\ UNCHANGED <<ntotal, dt1, dt, t, n, en>>
          ELSE /\ ntotal' = IF Overflows(S, P) THEN MulWrap(S, P) ELSE S * P
               /\ dt1' = InicialDen
               /\ dt' = StartupDt(dt1')
               /\ t' = 0
               /\ en' = Zero
               /\ n' = 0
               /\ pc' = "step"
  /\ UNCHANGED <<netlist, nao_linear, dta, iteracoes, reinicios, primeira,
                 erro_max, et, p3, rows, solves, p3writes, dtlog>>
  /\ UNCHANGED <<parseVars, sharedVars, iterVars>>

\* lines 468-469: for (n=0;n<=ntotal;n++) { iteracoes=0; reinicios=0; primeira=1;
StepBegin ==
  /\ pc = "step"
  /\ n <= ntotal
  /\ n < MaxSteps
  /\ iteracoes' = 0 /\ reinicios' = 0 /\ primeira' = 1
  /\ solves' = 0
  /\ p3writes' = [i \in 1..Len(netlist) |-> 0]
  /\ pc' = "newton"
  /\ UNCHANGED <<netlist, nao_linear, tempo, npontos, npassos, ntotal,
                 dt1, dt, dta, t, n, erro_max, en, et, p3, rows, dtlog>>
  /\ UNCHANGED <<parseVars, sharedVars, iterVars>>

\* lines 470-798: one pass of the do-while body (zero, stamp, solve, test)
Iterate ==
  /\ pc = "newton"
  /\ \E sing \in BOOLEAN, e \in ErrValues :
       LET it1 == iteracoes + 1
           restart == RestartDue(it1) /\ RestartAllowed(reinicios)
       IN
       \* stamps
       /\ p3' = [i \in 1..Len(netlist) |->
                   IF WritesP3(netlist[i], primeira) THEN n + 1 ELSE p3[i]]
       /\ p3writes' = [i \in 1..Len(netlist) |->
                   IF WritesP3(netlist[i], primeira)
                     THEN p3writes[i] + 1 ELSE p3writes[i]]
       /\ dtlog' = IF primeira # 0
                     THEN Append(dtlog, [dt |-> dt, dta |-> dta])
                     ELSE dtlog
       /\ solves' = solves + 1
       \* resolversistema, lines 148-151
       /\ IF sing
            THEN /\ pc' = "singular"
                 /\ UNCHANGED <<iteracoes, reinicios, primeira, erro_max, en>>
          ELSE IF IterLimit(it1)
            THEN /\ pc' = "nonconv"
                 /\ iteracoes' = it1
                 /\ erro_max' = 0
                 /\ UNCHANGED <<reinicios, primeira, en>>
          ELSE /\ erro_max' = e
               /\ en' = IF restart THEN Random(n) ELSE Solved(n)
               /\ reinicios' = IF restart THEN reinicios + 1 ELSE reinicios
               /\ iteracoes' = IF restart THEN 0 ELSE it1
               /\ primeira' = NextPrimeira(primeira)
               /\ pc' = IF LoopAgain(nao_linear, e) THEN "newton" ELSE "accept"
  /\ UNCHANGED <<netlist, nao_linear, tempo, npontos, npassos, ntotal,
                 dt1, dt, dta, t, n, et, rows>>
  /\ UNCHANGED <<parseVars, sharedVars, iterVars>>

\* lines 813-822: the step is accepted, a row emitted, time advanced
AcceptStep ==
  /\ pc = "accept"
  /\ et' = en
  /\ rows' = IF EmitsRow(n, npassos)
               THEN Append(rows, [n |-> n, t |-> t, et |-> en])
               ELSE rows
  /\ dta' = NextDta(dt, dt1)
  /\ dt' = dt1
  /\ t' = NextT(t, dt, dt1)
  /\ n' = n + 1
  /\ pc' = "step"
  /\ UNCHANGED <<netlist, nao_linear, tempo, npontos, npassos, ntotal, dt1,
                 iteracoes, reinicios, primeira, erro_max, en, p3, solves,
                 p3writes, dtlog>>
  /\ UNCHANGED <<parseVars, sharedVars, iterVars>>

\* lines 468, 823-827: the for loop ends, the run terminates successfully
EndRun ==
  /\ pc = "step"
  /\ ~(n <= ntotal)
  /\ pc' = "done"
  /\ UNCHANGED <<netlist, nao_linear, tempo, npontos, npassos, ntotal,
                 dt1, dt, dta, t, n, iteracoes, reinicios, primeira,
                 erro_max, en, et, p3, rows, solves, p3writes, dtlog>>
  /\ UNCHANGED <<parseVars, sharedVars, iterVars>>

Next == ReadNetlist \/ ReadParams \/ StepBegin \/ Iterate \/ AcceptStep \/ EndRun

Spec == Init /\ [][Next]_vars

(* ------------------------------ claims --------------------------------- *)
\* pc values at which a time step is being solved or has just ended
InStep == pc \in {"newton", "accept", "singular", "nonconv"}

\* x is the exact product a*b (a > 0), decided without forming a*b
IsProduct(x, a, b) == a > 0 /\ x % a = 0 /\ x \div a = b

\* greatest number of stamp+solve iterations one step can take:
\* 11 restarts of 21 iterations each, then 101 iterations up to the cap
SolveBound == (MaxReinicios + 1) * (RestartEvery + 1) + MAX_IT + 1

\* C1: within one time step the number of random re-seeds (reinicios)
\* never exceeds 10.
C1_ReseedsAtMostTen == reinicios <= 10

\* C2: a re-seed is applied only when the iteration that pushed the count
\* past 20 did not converge, so the vector accepted at the end of a step
\* (copied to et and emitted) is the output of the step's last linear
\* solve and never a re-seeded random vector.
C2_AcceptedIsLastSolve ==
  /\ en.kind = "rand" => erro_max > TOLE
  /\ pc = "accept" => en = Solved(n)
  /\ et.kind # "rand"
  /\ \A k \in 1..Len(rows) : rows[k].et = Solved(rows[k].n)

\* C3: a non-convergence abort happens only when the restart budget of the
\* step is exhausted (no restart remains), and after it no step is solved
\* and no row is emitted.
C3_AbortOnlyWhenBudgetSpent ==
  [][ /\ pc' = "nonconv" => reinicios' > MaxReinicios
      /\ pc = "nonconv" => pc' = "nonconv" /\ UNCHANGED <<n, rows, solves>>
    ]_vars

C3_Witness == pc = "nonconv" /\ n >= 1 /\ reinicios = MaxReinicios + 1

\* C4: the Newton loop of every step ends after finitely many stamp+solve
\* iterations (at most SolveBound), by accepting or by aborting, whatever
\* the errors are.
C4_NewtonTerminates ==
  /\ solves <= SolveBound
  /\ pc = "newton" => solves < SolveBound

C4_Witness == pc = "nonconv" /\ solves = SolveBound /\ n >= 1

\* C5: for a netlist without D, Q and M every time step performs exactly
\* one stamp+solve iteration and no random re-seed ever occurs.
C5_LinearOneIteration ==
  (\A i \in 1..Len(netlist) : netlist[i] \notin {"D", "Q", "M"}) =>
    /\ solves <= 1
    /\ pc = "newton" => solves = 0
    /\ pc = "accept" => solves = 1
    /\ reinicios = 0
    /\ en.kind # "rand"

C5_Witness ==
  /\ pc = "accept" /\ n >= 1 /\ solves = 1 /\ erro_max > TOLE
  /\ \A i \in 1..Len(netlist) : netlist[i] \notin {"D", "Q", "M"}

\* C6: the companion scratch p3 of every C (trapezoidal) and X element is
\* written exactly once per time step, in the first Newton iteration of the
\* step, and not again in later iterations, also after a random restart.
C6_P3OncePerStep ==
  InStep =>
    \A i \in 1..Len(netlist) :
      netlist[i] \in {"C", "X"} =>
        /\ p3writes[i] = IF solves >= 1 THEN 1 ELSE 0
        /\ solves >= 1 => p3[i] = n + 1

C6_Witness ==
  /\ pc = "newton" /\ n >= 1 /\ reinicios >= 1 /\ iteracoes >= 1
  /\ \E i \in 1..Len(netlist) : netlist[i] = "C" /\ p3writes[i] = 1
  /\ \E i \in 1..Len(netlist) : netlist[i] = "X" /\ p3writes[i] = 1

\* C7: the step size used at n = 0 is dt1/1000 and at every step n >= 1 is
\* dt1 = T/(P*S); the previous step dta seen by the stamps of step n >= 1
\* is the step size used at step n-1.
C7_StepSizes ==
  \A k \in 1..Len(dtlog) :
    /\ k = 1 => dtlog[k].dt * InicialDen = dt1
    /\ k > 1 => /\ dtlog[k].dt = dt1
                /\ IsProduct(ntotal, npontos, npassos)
                /\ dtlog[k].dta = dtlog[k - 1].dt

\* C8 (as claimed): after each accepted step t is advanced by the step
\* size dt that was used to compute that step.
C8_AdvancedByUsedStep == [][pc = "accept" => t' = t + dt]_vars

\* C8 (amended): after each accepted step t is advanced by the nominal
\* step dt1, so t = n*dt1 whenever step n is about to be or being solved;
\* after step 0, t = dt1 although step 0 used dt1/1000.
C8_TimeIsNominal ==
  pc \in {"step", "newton", "accept", "singular", "nonconv", "done"} =>
    t = n * dt1

C8_Witness ==
  /\ pc = "newton" /\ n = 1 /\ t = dt1
  /\ Len(dtlog) >= 1 /\ dtlog[1].dt # dt1

\* C9: a run that does not abort solves steps n = 0..N with N = P*S and
\* emits a row exactly at the steps with n mod S = 0, so exactly P+1 rows,
\* in increasing order of t.
C9_RowsEmitted ==
  pc = "done" =>
    /\ IsProduct(n - 1, npontos, npassos)
    /\ Len(rows) = npontos + 1
    /\ \A k \in 1..Len(rows) : rows[k].n = (k - 1) * npassos
    /\ \A k \in 1..(Len(rows) - 1) : rows[k].t < rows[k + 1].t

\* C10: if T <= 0 or P <= 0 or S <= 0 or P > 100000 the run aborts before
\* any step is solved and any row is emitted; for all other parameter
\* values the simulation loop is entered.
C10_ParamCheck ==
  pc \notin {"read", "params"} =>
    IF tempo <= 0 \/ npontos <= 0 \/ npassos <= 0 \/ npontos > 100000
      THEN pc = "invalid" /\ rows = <<>> /\ dtlog = <<>>
      ELSE /\ pc \in {"step", "newton", "accept", "singular", "nonconv", "done"}
           /\ pc = "step" /\ n = 0 => n <= ntotal
           /\ pc = "done" => n >= 1

(***************************************************************************)
(*                 SpecParse: the netlist reader, lines 221-441            *)
(***************************************************************************)
\* a line of the netlist file: kind letter, element name, up to four node
\* (or, for K, element) names, and the source or polarity tag
Ln(tp, nm, a, b, c, d, tg) ==
  [tipo |-> tp, nome |-> nm, na |-> a, nb |-> b, nc |-> c, nd |-> d,
   tag |-> tg]

\* lines the short files are made of
LineSet ==
  { Ln("R", "R1", "1", "0", "", "", ""),
    Ln("L", "L1", "1", "2", "", "", ""),
    Ln("L", "L2", "2", "0", "", "", ""),
    Ln("X", "X1", "2", "3", "", "", ""),
    Ln("V", "V1", "1", "0", "", "", "D"),
    Ln("I", "I1", "3", "0", "", "", "Z"),
    Ln("E", "E1", "2", "0", "1", "0", ""),
    Ln("F", "F1", "3", "0", "1", "2", ""),
    Ln("H", "H1", "3", "0", "1", "0", ""),
    Ln("O", "O1", "2", "0", "1", "3", ""),
    Ln("K", "K1", "L1", "L2", "", "", ""),
    Ln("K", "K2", "L1", "R1", "", "", ""),
    Ln("K", "K3", "L2", "L9", "", "", ""),
    Ln("Q", "Q1", "1", "2", "0", "", "X"),
    Ln("D", "D1", "1", "0", "", "", ""),
    Ln("*", "*", "", "", "", "", ""),
    Ln("Z", "Z1", "", "", "", "", "") }

\* number of lines of the short files
MaxLines == 3

ShortFiles == UNION { [1..k -> LineSet] : k \in 0..MaxLines }

\* files that reach the capacity limits: too many elements, too many node
\* names, too many auxiliary currents
ManyElements == [i \in 1..(MAX_ELEM + 1) |-> Ln("R", "R", "1", "0", "", "", "")]
ManyNodes ==
  [i \in 1..(MAX_NOS + 1) |-> Ln("R", "R1", ToString(i), "0", "", "", "")]
ManyCurrents ==
  [i \in 1..((MAX_NOS \div 2) + 1) |->
     IF i = 1 THEN Ln("H", "H1", "1", "0", "1", "0", "")
              ELSE Ln("V", "V1", ToString(i), "0", "", "", "D")]

Files == ShortFiles \cup {ManyElements, ManyNodes, ManyCurrents}

\* a netlist[] slot never written (the array is a zeroed global)
Blank == [nome |-> "", tipo |-> "", a |-> 0, b |-> 0, c |-> 0, d |-> 0,
          x |-> 0, y |-> 0]

\* character code of the kind letter, as stored in nome[0]
Ascii(tp) ==
  CASE tp = "C" -> 67 [] tp = "D" -> 68 [] tp = "E" -> 69 [] tp = "F" -> 70
    [] tp = "G" -> 71 [] tp = "H" -> 72 [] tp = "I" -> 73 [] tp = "K" -> 75
    [] tp = "L" -> 76 [] tp = "M" -> 77 [] tp = "O" -> 79 [] tp = "Q" -> 81
    [] tp = "R" -> 82 [] tp = "V" -> 86 [] tp = "X" -> 88 [] tp = "Z" -> 90
    [] OTHER -> 42

SetMin(S) == CHOOSE m \in S : \A k \in S : m <= k
SetMax(S) == CHOOSE m \in S : \A k \in S : m >= k

\* the search of numero stops at the entry before the last one
Found_short(lst, v, nome) == {i \in 0..(v - 1) : lst[i] = nome}

\* lines 168-170: the entries of lista[0..nv] equal to nome
Found(lst, v, nome) == {i \in 0..v : lst[i] = nome}

\* lines 164-183: numero(nome) on the table (lst, v); ok = FALSE is exit(1)
Numero(lst, v, nome) ==
  LET hits == Found(lst, v, nome) IN
  IF hits # {}
    THEN [ok |-> TRUE, idx |-> SetMin(hits), lista |-> lst, nv |-> v]
  ELSE IF v = MAX_NOS
    THEN [ok |-> FALSE, idx |-> -1, lista |-> lst, nv |-> v]
  ELSE [ok |-> TRUE, idx |-> v + 1,
        lista |-> [i \in 0..(v + 1) |-> IF i = v + 1 THEN nome ELSE lst[i]],
        nv |-> v + 1]

\* numero applied to the names of one line, in the order of the calls
RECURSIVE NumeroSeq(_, _, _)
NumeroSeq(lst, v, names) ==
  IF names = <<>>
    THEN [ok |-> TRUE, idxs |-> <<>>, lista |-> lst, nv |-> v, log |-> <<>>]
  ELSE
    LET r == Numero(lst, v, Head(names))
        call == [nome |-> Head(names), idx |-> r.idx, antes |-> v,
                 depois |-> r.nv, ok |-> r.ok]
    IN IF ~r.ok
         THEN [ok |-> FALSE, idxs |-> <<>>, lista |-> lst, nv |-> v,
               log |-> <<call>>]
       ELSE LET rest == NumeroSeq(r.lista, r.nv, Tail(names))
            IN [ok |-> rest.ok, idxs |-> <<r.idx>> \o rest.idxs,
                lista |-> rest.lista, nv |-> rest.nv,
                log |-> <<call>> \o rest.log]

\* the node names a line hands to numero, lines 252-354
NodeNames(ln) ==
  IF ln.tipo \in {"R", "C", "L", "X", "I", "V", "D"} THEN <<ln.na, ln.nb>>
  ELSE IF ln.tipo = "Q" THEN <<ln.na, ln.nb, ln.nc>>
  ELSE IF ln.tipo \in {"G", "E", "F", "H", "O", "M"}
    THEN <<ln.na, ln.nb, ln.nc, ln.nd>>
  ELSE <<>>

\* lines 270, 334, 348: the source or polarity tag is accepted
TagOK(ln) ==
  IF ln.tipo \in {"I", "V"} THEN ln.tag \in {"D", "S", "P"}
  ELSE IF ln.tipo \in {"M", "Q"} THEN ln.tag \in {"N", "P"}
  ELSE TRUE

\* lines 305-308: the elements before slot k whose name is nome
Lookup(arr, k, nome) ==
  {i \in 1..(k - 1) : i <= Len(arr) /\ arr[i].nome = nome}

\* the last match wins, 0 when there is none
LastOf(S) == IF S = {} THEN 0 ELSE SetMax(S)

\* slot k of the array with the fields a line of kind ln.tipo writes
Slot(arr, k, ln, idxs) ==
  LET old == IF k <= Len(arr) THEN arr[k] ELSE Blank
      named == [old EXCEPT !.nome = ln.nome, !.tipo = ln.tipo]
      ab == [named EXCEPT !.a = idxs[1], !.b = idxs[2]]
  IN IF ln.tipo \in {"R", "C", "L", "X", "D"} THEN ab
     ELSE IF ln.tipo \in {"I", "V"} THEN [ab EXCEPT !.y = Ascii(ln.tag)]
     ELSE IF ln.tipo = "Q"
       THEN [ab EXCEPT !.c = idxs[3], !.y = Ascii(ln.tag)]
     ELSE IF ln.tipo = "M"
       THEN [ab EXCEPT !.c = idxs[3], !.d = idxs[4], !.y = Ascii(ln.tag)]
     ELSE [ab EXCEPT !.c = idxs[3], !.d = idxs[4]]

\* the array with slot k replaced (the array grows when k is new)
Store(arr, k, rec) ==
  [i \in 1..(IF k > Len(arr) THEN k ELSE Len(arr)) |->
     IF i = k THEN rec ELSE IF i <= Len(arr) THEN arr[i] ELSE Blank]

KnownTipo == {"R", "C", "L", "X", "I", "V", "G", "E", "F", "H", "O", "K",
              "D", "M", "Q", "*", "."}

\* the K line is refused only when both names are missing
KMissing_both(ka, kb) == ka = 0 /\ kb = 0

\* line 309
KMissing(ka, kb) == ka = 0 \/ kb = 0

\* line 87: slot k lies outside elemento netlist[MAX_ELEM]
Outside(k) == k >= MAX_ELEM

\* the first current of an H element shares the index of the second
HX_same(v) == v

\* line 390: netlist[i].x=nv-1
HX(v) == v - 1

\* lines 371-399, one element of the auxiliary-current pass
AuxStep(st, i) ==
  LET e == st.elem[i]
      tp == e.tipo
  IN IF tp \in {"V", "E", "F", "O", "L"}
       THEN LET v == st.nv + 1 IN
            IF v > MAX_NOS THEN [st EXCEPT !.ok = FALSE, !.nv = v]
            ELSE [ok |-> TRUE, nv |-> v,
                  lista |-> [k \in 0..v |->
                               IF k = v THEN "j" \o e.nome ELSE st.lista[k]],
                  elem |-> [st.elem EXCEPT ![i].x = v]]
     ELSE IF tp = "H"
       THEN LET v == st.nv + 2 IN
            IF v > MAX_NOS THEN [st EXCEPT !.ok = FALSE, !.nv = v]
            ELSE [ok |-> TRUE, nv |-> v,
                  lista |-> [k \in 0..v |->
                               IF k = v - 1 THEN "jx" \o e.nome
                               ELSE IF k = v THEN "jy" \o e.nome
                               ELSE st.lista[k]],
                  elem |-> [st.elem EXCEPT ![i].x = HX(v), ![i].y = v]]
     ELSE IF tp = "K"
       THEN [st EXCEPT !.elem = [st.elem EXCEPT ![i].x = st.elem[e.a].x,
                                                ![i].y = st.elem[e.b].x]]
     ELSE st

RECURSIVE AuxFrom(_, _, _)
AuxFrom(st, i, last) ==
  IF i > last \/ ~st.ok THEN st ELSE AuxFrom(AuxStep(st, i), i + 1, last)

\* the engine at rest
EngineIdle ==
  /\ pc = "idle"
  /\ netlist = <<>>
  /\ nao_linear = 0
  /\ tempo = 0 /\ npontos = 0 /\ npassos = 0 /\ ntotal = 0
  /\ dt1 = 0 /\ dt = 0 /\ dta = 0 /\ t = 0
  /\ n = 0
  /\ iteracoes = 0 /\ reinicios = 0 /\ primeira = 0 /\ erro_max = 0
  /\ et = Zero
  /\ p3 = <<>>
  /\ rows = <<>>
  /\ solves = 0
  /\ p3writes = <<>>
  /\ dtlog = <<>>

\* lines 221-223: ne=0; nv=0; strcpy(lista[0],"0"); and a file is opened
InitParse ==
  /\ EngineIdle /\ IterIdle /\ en = Zero
  /\ ppc = "reading"
  /\ arquivo \in Files
  /\ ne = 0 /\ nv = 0 /\ nn = 0
  /\ lista = [i \in {0} |-> "0"]
  /\ elem = <<>>
  /\ chamadas = <<>>
  /\ lidos = <<>>

\* lines 243-367: one line of the file is read and stored.
\* The array is elemento netlist[MAX_ELEM] and slot 0 is not used, so the
\* element number MAX_ELEM is stored outside the array.  That store is
\* undefined: it either lands in memory nothing else uses ("fits") or on
\* the variables declared right after the array, where the bytes of the
\* name replace the value of ne ("clobber").
ReadElement ==
  /\ ppc = "reading"
  /\ arquivo # <<>>
  /\ \E ub \in {"fits", "clobber"} :
       LET ln == Head(arquivo)
           k0 == ne + 1
           hit == Outside(k0) /\ ub = "clobber"
           k == IF hit THEN Ascii(ln.tipo) ELSE k0
           r == NumeroSeq(lista, nv, NodeNames(ln))
           ka == LastOf(Lookup(elem, k, ln.na))
           kb == LastOf(Lookup(elem, k, ln.nb))
           old == IF k <= Len(elem) THEN elem[k] ELSE Blank
           keep(rec) == IF hit THEN [rec EXCEPT !.nome = old.nome,
                                                !.tipo = old.tipo]
                        ELSE rec
       IN
       /\ ub = "clobber" => Outside(k0) /\ k0 <= MAX_ELEM
       /\ arquivo' = Tail(arquivo)
       /\ lidos' = Append(lidos, ln)
       /\ IF k0 > MAX_ELEM
            THEN /\ ppc' = "abort_elem"
                 /\ ne' = k0
                 /\ UNCHANGED <<nv, lista, elem, chamadas>>
          ELSE IF hit /\ Len(ln.nome) # 1
            THEN /\ ppc' = "crash"
                 /\ UNCHANGED <<ne, nv, lista, elem, chamadas>>
          ELSE IF ln.tipo \notin KnownTipo
            THEN /\ ppc' = "abort_tipo"
                 /\ ne' = k
                 /\ UNCHANGED <<nv, lista, elem, chamadas>>
          ELSE IF ln.tipo \in {"*", "."}
            THEN /\ ppc' = "reading"
                 /\ ne' = k - 1
                 /\ elem' = Store(elem, k, keep([old EXCEPT !.nome = ln.nome,
                                                            !.tipo = ln.tipo]))
                 /\ UNCHANGED <<nv, lista, chamadas>>
          ELSE IF ln.tipo \in {"I", "V"} /\ ~TagOK(ln)
            THEN /\ ppc' = "abort_tag"
                 /\ ne' = k
                 /\ UNCHANGED <<nv, lista, elem, chamadas>>
          ELSE IF ln.tipo = "K"
            THEN /\ ne' = k
                 /\ UNCHANGED <<nv, lista, chamadas>>
                 /\ IF KMissing(ka, kb)
                      THEN ppc' = "abort_k" /\ UNCHANGED elem
                      ELSE /\ ppc' = "reading"
                           /\ elem' = Store(elem, k,
                                 keep([old EXCEPT !.nome = ln.nome,
                                                  !.tipo = ln.tipo,
                                                  !.a = ka, !.b = kb]))
          ELSE /\ ne' = k
               /\ nv' = r.nv
               /\ lista' = r.lista
               /\ chamadas' = chamadas \o r.log
               /\ IF ~r.ok
                    THEN ppc' = "abort_nos" /\ UNCHANGED elem
                  ELSE IF ~TagOK(ln)
                    THEN ppc' = "abort_tag" /\ UNCHANGED elem
                  ELSE /\ ppc' = "reading"
                       /\ elem' = Store(elem, k, keep(Slot(elem, k, ln, r.idxs)))
  /\ UNCHANGED nn
  /\ UNCHANGED <<engineVars, en, iterVars>>

\* lines 368-370: end of file, nn=nv
EndOfFile ==
  /\ ppc = "reading"
  /\ arquivo = <<>>
  /\ nn' = nv
  /\ ppc' = "aux"
  /\ UNCHANGED <<arquivo, ne, nv, lista, elem, chamadas, lidos>>
  /\ UNCHANGED <<engineVars, en, iterVars>>

\* lines 371-399: the auxiliary currents are numbered
AuxPass ==
  /\ ppc = "aux"
  /\ LET st == AuxFrom([ok |-> TRUE, nv |-> nv, lista |-> lista,
                        elem |-> elem], 1, ne)
     IN /\ ppc' = IF st.ok THEN "ready" ELSE "abort_aux"
        /\ nv' = st.nv
        /\ lista' = st.lista
        /\ elem' = st.elem
  /\ UNCHANGED <<arquivo, ne, nn, chamadas, lidos>>
  /\ UNCHANGED <<engineVars, en, iterVars>>

\* lines 441-468: the parameters are read and the simulation loop entered
Simulate ==
  /\ ppc = "ready"
  /\ ppc' = "simulating"
  /\ UNCHANGED <<arquivo, ne, nv, nn, lista, elem, chamadas, lidos>>
  /\ UNCHANGED <<engineVars, en, iterVars>>

NextParse == ReadElement \/ EndOfFile \/ AuxPass \/ Simulate

SpecParse == InitParse /\ [][NextParse]_vars


\* ---------------------------------------------------------------------
\* Properties of the reader (SpecParse)

\* the reader stopped with a fatal error
ReaderAborted ==
  ppc \in {"abort_elem", "abort_nos", "abort_k", "abort_tag", "abort_tipo",
           "abort_aux", "crash"}

\* positions of the lines read so far that are elements
ElementLines == {p \in 1..Len(lidos) : lidos[p].tipo \notin {"*", "."}}

\* auxiliary unknowns an element of this kind must own
Owned(tp) == IF tp \in {"V", "E", "F", "O", "L"} THEN 1
             ELSE IF tp = "H" THEN 2 ELSE 0

\* the auxiliary unknowns of element i
AuxOf(i) == IF Owned(elem[i].tipo) = 1 THEN {elem[i].x}
            ELSE IF Owned(elem[i].tipo) = 2 THEN {elem[i].x, elem[i].y}
            ELSE {}

RECURSIVE SumOwned(_)
SumOwned(i) == IF i = 0 THEN 0 ELSE Owned(elem[i].tipo) + SumOwned(i - 1)

\* C11: capacity overflow is always fatal: a numero call that needs a new
\* entry in a full table, more than MAX_ELEM elements read, or auxiliary
\* currents beyond MAX_NOS abort the run, and no run that enters the
\* simulation has exceeded a capacity.
C11_CapacityFatal ==
  /\ Cardinality(ElementLines) > MAX_ELEM => ppc = "abort_elem"
  /\ (\E k \in 1..Len(chamadas) : ~chamadas[k].ok) => ppc = "abort_nos"
  /\ ppc \in {"ready", "simulating"} => nv = nn + SumOwned(ne) /\ nv <= MAX_NOS
  /\ ppc = "simulating" => Cardinality(ElementLines) <= MAX_ELEM

\* C12: numero maps "0" to 0, returns the same index for a name it already
\* holds and leaves nv unchanged, never gives one index to two names, and
\* hands out 1..nv in order of first appearance.
C12_InternTable ==
  /\ lista[0] = "0"
  /\ \A k \in 1..Len(chamadas) :
       LET c == chamadas[k]
           seen == {j \in 1..(k - 1) : chamadas[j].nome = c.nome}
       IN c.ok =>
            /\ c.nome = "0" => c.idx = 0 /\ c.depois = c.antes
            /\ \A j \in seen : c.idx = chamadas[j].idx /\ c.depois = c.antes
            /\ \A j \in 1..(k - 1) :
                 chamadas[j].nome # c.nome => chamadas[j].idx # c.idx
            /\ (seen = {} /\ c.nome # "0") =>
                 c.idx = c.antes + 1 /\ c.depois = c.idx
            /\ {chamadas[j].idx : j \in 1..k} \ {0} = 1..c.depois
            /\ lista[c.idx] = c.nome

C12_Witness ==
  /\ \E j, k \in 1..Len(chamadas) :
       j < k /\ chamadas[j].nome = chamadas[k].nome /\ chamadas[k].nome # "0"
  /\ \E k \in 1..Len(chamadas) : chamadas[k].nome = "0"
  /\ nv >= 2

\* C13: after the auxiliary pass every V, E, F, O and L owns one unknown
\* and every H two, all distinct, filling nn+1..nv without gaps; a K owns
\* none and its x and y are the x of the two elements it references.
C13_AuxiliaryUnknowns ==
  ppc \in {"ready", "simulating"} =>
    /\ UNION {AuxOf(i) : i \in 1..ne} = (nn + 1)..nv
    /\ \A i \in 1..ne : Cardinality(AuxOf(i)) = Owned(elem[i].tipo)
    /\ \A i, j \in 1..ne : i # j => AuxOf(i) \cap AuxOf(j) = {}
    /\ \A i \in 1..ne :
         elem[i].tipo = "K" =>
           /\ elem[i].x = elem[elem[i].a].x
           /\ elem[i].y = elem[elem[i].b].x

C13_Witness ==
  /\ ppc = "ready"
  /\ \E i, j \in 1..ne :
       /\ elem[i].tipo = "H"
       /\ elem[j].tipo \in {"V", "E", "F", "O", "L"}

\* C14: a K line is accepted only if both names it references are names of
\* elements read before it; otherwise the run aborts while reading.
C14_CoupledDeclared ==
  \A p \in 1..Len(lidos) :
    lidos[p].tipo = "K" =>
      LET declared(nm) == \E q \in ElementLines : q < p /\ lidos[q].nome = nm
          both == declared(lidos[p].na) /\ declared(lidos[p].nb)
          accepted == p < Len(lidos) \/ ~ReaderAborted
      IN /\ accepted => both
         /\ ~both => p = Len(lidos) /\ ppc = "abort_k"

C14_Witness ==
  /\ ppc = "ready"
  /\ \E i \in 1..ne : elem[i].tipo = "K"

\* C15: a K line is accepted only if both elements it references are of
\* kind L.
C15_CoupledAreInductors ==
  ~ReaderAborted =>
    \A i \in 1..ne :
      elem[i].tipo = "K" =>
        elem[elem[i].a].tipo = "L" /\ elem[elem[i].b].tipo = "L"


\* ---------------------------------------------------------------------
\* The numerical pass (SpecIter).  A double is modelled by the exact
\* rational it stands for, a pair <<numerator, denominator>> in lowest
\* terms with a positive denominator.

Abs(x) == IF x < 0 THEN -x ELSE x

RECURSIVE GCD(_, _)
GCD(a, b) == IF b = 0 THEN a ELSE GCD(b, a % b)

Norm(num, den) ==
  LET s == IF den < 0 THEN -1 ELSE 1
      g == GCD(Abs(num), Abs(den))
  IN <<(s * num) \div g, (s * den) \div g>>

Q(k) == <<k, 1>>
QAdd(p, q) ==
  LET g == GCD(p[2], q[2])
  IN Norm(p[1] * (q[2] \div g) + q[1] * (p[2] \div g), (p[2] \div g) * q[2])
QNeg(p) == <<-p[1], p[2]>>
QSub(p, q) == QAdd(p, QNeg(q))
QMul(p, q) ==
  LET g1 == GCD(Abs(p[1]), q[2])
      g2 == GCD(Abs(q[1]), p[2])
  IN Norm((p[1] \div g1) * (q[1] \div g2), (p[2] \div g2) * (q[2] \div g1))
QDiv(p, q) ==
  IF q[1] = 0 THEN Norm(p[1] * q[2], 0)
  ELSE QMul(p, IF q[1] < 0 THEN <<-q[2], -q[1]>> ELSE <<q[2], q[1]>>)
QAbs(p) == <<Abs(p[1]), p[2]>>
QLess(p, q) == p[1] * q[2] < q[1] * p[2]

\* 1e-12 is 1/(Million*Million), 1e-7 is 1/TenMillion
Million == 1000000
TenMillion == 10000000

\* line 148: fabs(tt)<TOLG, that is |num| * 1e12 < den
BelowTOLG(p) == Abs(p[1]) <= ((p[2] - 1) \div Million) \div Million

\* line 798: erro_max>TOLE, that is |num| * 1e7 > den
AboveTOLE(p) == Abs(p[1]) > p[2] \div TenMillion

\* line 117: double Yn[MAX_NOS][MAX_NOS].  The system is kept as the
\* memory of the array: the cell of Yn[r][c] is at offset r*MAX_NOS+c,
\* whatever c is, so that Yn[r][MAX_NOS] is the cell of Yn[r+1][0].
Off(r, c) == r * MAX_NOS + c
Get(Y, r, c) == Y[Off(r, c)]

\* lines 472-473: for (i=0; i<=nv+1; i++), for (j=0; j<=nv+1; j++)
ZeroRange(v) == 0..(v + 1)

\* lines 471-475: the system is zeroed, rows and columns 0..nv+1
ZeroSystem(v) == [o \in {Off(r, c) : r \in ZeroRange(v), c \in ZeroRange(v)}
                    |-> Q(0)]

\* the system with what was written to row 0 and to column 0 taken out
Grounded(Y, v) ==
  [o \in DOMAIN Y |->
     IF o \in {Off(0, c) : c \in 0..(v + 1)} \cup {Off(r, 0) : r \in 0..(v + 1)}
       THEN Q(0) ELSE Y[o]]

\* the candidate replaces the pivot when it is larger, sign included
Larger_signed(y, tt) == QLess(tt, y)

\* line 136: fabs(Yn[l][i])>fabs(tt)
Larger(y, tt) == QLess(QAbs(tt), QAbs(y))

\* lines 133-140: the search for the pivot of column i, rows l..nv
RECURSIVE PivotScan(_, _, _, _, _, _)
PivotScan(Y, v, i, l, a, tt) ==
  IF l > v THEN [a |-> a, tt |-> tt]
  ELSE IF Larger(Get(Y, l, i), tt)
    THEN PivotScan(Y, v, i, l + 1, l, Get(Y, l, i))
  ELSE PivotScan(Y, v, i, l + 1, a, tt)

\* the right-hand side is left out of the exchange of rows
SwapCols_short(v) == 1..v

\* line 143: for (l=1; l<=nv+1; l++)
SwapCols(v) == 1..(v + 1)

\* lines 142-147: rows i and a are exchanged
SwapRows(Y, v, i, a) ==
  IF i = a THEN Y
  ELSE [o \in DOMAIN Y |->
          IF (o - Off(i, 0)) \in SwapCols(v) THEN Y[o - Off(i, 0) + Off(a, 0)]
          ELSE IF (o - Off(a, 0)) \in SwapCols(v)
            THEN Y[o - Off(a, 0) + Off(i, 0)]
          ELSE Y[o]]

\* lines 152-159: for (j=nv+1; j>0; j--) the pivot row is divided by tt
\* and every other row l of 1..nv is reduced by Yn[l][i]*p.  The columns
\* are taken from nv+1 down, so Yn[l][i] still has the value it had at
\* entry while j>i, is itself reduced at j=i, and has that reduced value
\* while j<i.  The cell at offset o is Yn[l][j] with j in 1..MAX_NOS.
\* A row whose Yn[l][i] is 0 keeps its values.
Eliminate(Y, v, i, tt) ==
  LET p(j) == QDiv(Get(Y, i, j), tt)
      atI(l) == QSub(Get(Y, l, i), QMul(Get(Y, l, i), p(i)))
  IN [o \in DOMAIN Y |->
        LET l == (o - 1) \div MAX_NOS
            j == o - l * MAX_NOS
        IN IF l \notin 1..v \/ j \notin 1..(v + 1) THEN Y[o]
           ELSE IF l = i THEN p(j)
           ELSE IF Get(Y, l, i) = Q(0) THEN Y[o]
           ELSE IF j > i THEN QSub(Y[o], QMul(Get(Y, l, i), p(j)))
           ELSE IF j = i THEN atI(l)
           ELSE QSub(Y[o], QMul(atI(l), p(j)))]

\* lines 132-160, one pass of the outer loop for column i
PivotColumn(Y, v, i) ==
  LET s == PivotScan(Y, v, i, i, i, Q(0))
      W == SwapRows(Y, v, i, s.a)
  IN IF BelowTOLG(s.tt)
       THEN [ok |-> FALSE, Y |-> W, a |-> s.a, tt |-> s.tt]
       ELSE [ok |-> TRUE, Y |-> Eliminate(W, v, i, s.tt),
             a |-> s.a, tt |-> s.tt]

\* Yn[r][c]+=q and Yn[r][c]=q
AddTo(Y, r, c, q) == [Y EXCEPT ![Off(r, c)] = QAdd(@, q)]
SetTo(Y, r, c, q) == [Y EXCEPT ![Off(r, c)] = q]

\* the first cell is assigned instead of added to
Transcondutancia_set(Y, noa, nob, noc, nod, g) ==
  AddTo(AddTo(AddTo(SetTo(Y, noa, noc, g), nob, nod, g),
              noa, nod, QNeg(g)), nob, noc, QNeg(g))

\* lines 185-191
Transcondutancia(Y, noa, nob, noc, nod, g) ==
  AddTo(AddTo(AddTo(AddTo(Y, noa, noc, g), nob, nod, g),
              noa, nod, QNeg(g)), nob, noc, QNeg(g))

\* line 193
Condutancia(Y, a, b, g) == Transcondutancia(Y, a, b, a, b, g)

\* lines 195-199
Fonte(Y, v, noa, nob, i) ==
  AddTo(AddTo(Y, noa, v + 1, QNeg(i)), nob, v + 1, i)

\* lines 539-550 with n=0: the trapezoidal stamp of an inductor
StampL(Y, v, e, step) ==
  LET g == QDiv(QMul(e.p1, Q(2)), step)
      Y1 == SetTo(Y, e.a, e.x, Q(1))
      Y2 == SetTo(Y1, e.b, e.x, Q(-1))
      Y3 == SetTo(Y2, e.x, e.a, Q(-1))
      Y4 == SetTo(Y3, e.x, e.b, Q(1))
      Y5 == SetTo(Y4, e.x, e.x, g)
  IN SetTo(Y5, e.x, v + 1, QMul(g, e.p2))

\* lines 588-602 with n=0 and metodo 3: the stamp of a mutual inductance
StampK(Y, v, e, arr, step) ==
  LET g == QMul(QDiv(e.p2, step), Q(2))
      Y1 == AddTo(Y, e.x, e.y, g)
      Y2 == AddTo(Y1, e.y, e.x, g)
      Y3 == AddTo(Y2, e.x, v + 1, QMul(g, arr[e.b].p2))
  IN AddTo(Y3, e.y, v + 1, QMul(g, arr[e.a].p2))

\* the branch equation of the source also holds its own current
StampV_series(Y, v, e) ==
  LET Y1 == SetTo(Y, e.a, e.x, Q(1))
      Y2 == SetTo(Y1, e.b, e.x, Q(-1))
      Y3 == SetTo(Y2, e.x, e.a, Q(1))
      Y4 == SetTo(Y3, e.x, e.b, Q(-1))
      Y5 == SetTo(Y4, e.x, e.x, Q(1))
  IN SetTo(Y5, e.x, v + 1, e.p1)

\* lines 614-625, a DC source
StampV(Y, v, e) ==
  LET Y1 == SetTo(Y, e.a, e.x, Q(1))
      Y2 == SetTo(Y1, e.b, e.x, Q(-1))
      Y3 == SetTo(Y2, e.x, e.a, Q(1))
      Y4 == SetTo(Y3, e.x, e.b, Q(-1))
  IN SetTo(Y4, e.x, v + 1, e.p1)

\* lines 626-634: the stamp of a voltage amplifier
StampE(Y, v, e) ==
  LET g == e.p1
      Y1 == SetTo(Y, e.a, e.x, Q(1))
      Y2 == SetTo(Y1, e.b, e.x, Q(-1))
      Y3 == SetTo(Y2, e.x, e.a, Q(1))
      Y4 == SetTo(Y3, e.x, e.b, Q(-1))
      Y5 == SetTo(Y4, e.x, e.c, QNeg(g))
  IN SetTo(Y5, e.x, e.d, g)

\* lines 635-643: the stamp of a current amplifier
StampF(Y, v, e) ==
  LET g == e.p1
      Y1 == SetTo(Y, e.a, e.x, g)
      Y2 == SetTo(Y1, e.b, e.x, QNeg(g))
      Y3 == SetTo(Y2, e.c, e.x, Q(1))
      Y4 == SetTo(Y3, e.d, e.x, Q(-1))
      Y5 == SetTo(Y4, e.x, e.c, Q(1))
  IN SetTo(Y5, e.x, e.d, Q(-1))

\* lines 479-481, 588-613, 614-643, 662-664: the stamp of element k.
\* lin is the linearisation diodo computes with exp (lines 207-211).
Stamp(Y, v, arr, k, step, lin) ==
  LET e == arr[k]
  IN CASE e.tipo = "R" -> Condutancia(Y, e.a, e.b, QDiv(Q(1), e.p1))
       [] e.tipo = "G" -> Transcondutancia(Y, e.a, e.b, e.c, e.d, e.p1)
       [] e.tipo = "I" -> Fonte(Y, v, e.a, e.b, e.p1)
       [] e.tipo = "V" -> StampV(Y, v, e)
       [] e.tipo = "L" -> StampL(Y, v, e, step)
       [] e.tipo = "K" -> StampK(Y, v, e, arr, step)
       [] e.tipo = "E" -> StampE(Y, v, e)
       [] e.tipo = "F" -> StampF(Y, v, e)
       [] e.tipo = "D" -> Fonte(Condutancia(Y, e.a, e.b, lin.g),
                                v, e.a, e.b, lin.id)

\* lines 203-207: the voltage diodo linearises at, 0.6 in the iteration
\* numbered 0 of step 0 and else en[noa]-en[nob] held at 0.9
DiodeV(k, it, ea, eb) ==
  IF k = 0 /\ it = 0 THEN [seed |-> TRUE, v |-> <<3, 5>>]
  ELSE LET d == QSub(ea, eb)
       IN [seed |-> FALSE,
           v |-> IF QLess(<<9, 10>>, d) THEN <<9, 10>> ELSE d]

RECURSIVE Assemble(_, _, _, _, _, _)
Assemble(Y, v, arr, ord, step, lin) ==
  IF ord = <<>> THEN Y
  ELSE Assemble(Stamp(Y, v, arr, Head(ord), step, lin), v, arr, Tail(ord),
                step, lin)

\* the values exp gives to diodo are not rational: g and id are drawn
\* from a few positive conductances and their currents
DiodeLin == {[g |-> Q(gg), id |-> Q(ii)] : gg \in {1, 2}, ii \in {-1, 0}}

\* line 790: a value of (double)rand()/RAND_MAX*10-5
RandValues == {Q(-5), Q(5)}

\* entries of the systems and values of the sources
MaxEntry == 1
Entries == (-MaxEntry)..MaxEntry

\* Newton iterations followed in one step
MaxIterations == 22

El(nm, tp, a, b, c, d, x, y, p1, p2) ==
  [nome |-> nm, tipo |-> tp, a |-> a, b |-> b, c |-> c, d |-> d,
   x |-> x, y |-> y, p1 |-> p1, p2 |-> p2]

Circuit(v, nl, arr, ords) == [nv |-> v, nl |-> nl, elem |-> arr, ords |-> ords]

Perms(k) == {f \in [1..k -> 1..k] : \A i, j \in 1..k : i # j => f[i] # f[j]}
Ident(k) == [i \in 1..k |-> i]

\* V1 a b DC v1, V2 a b DC v2, R1 1 0 1: node 1, currents 2 and 3
TwoSources ==
  { Circuit(3, 0,
      << El("V1", "V", ab[1], ab[2], 0, 0, 2, Ascii("D"), Q(v1), Q(0)),
         El("V2", "V", ab[1], ab[2], 0, 0, 3, Ascii("D"), Q(v2), Q(0)),
         El("R1", "R", 1, 0, 0, 0, 0, 0, Q(1), Q(0)) >>, Perms(3))
    : ab \in {<<1, 0>>, <<0, 1>>}, v1 \in Entries, v2 \in Entries }

\* L1 1 0 1 IC=i1, L2 2 0 1 IC=i2, K1 L1 L2 0.5: nodes 1, 2, currents 3, 4
Coupled ==
  { Circuit(4, 0,
      << El("L1", "L", 1, 0, 0, 0, 3, 0, Q(1), Q(i1)),
         El("L2", "L", 2, 0, 0, 0, 4, 0, Q(1), Q(i2)),
         El("K1", "K", 1, 2, 0, 0, 3, 4, <<1, 2>>, <<1, 2>>) >>, Perms(3))
    : i1 \in Entries, i2 \in Entries }

\* V1 1 0 DC v, R1 1 2 1, R2 2 0 1: nodes 1, 2, current 3
Divider ==
  { Circuit(3, 0,
      << El("V1", "V", 1, 0, 0, 0, 3, Ascii("D"), Q(v1), Q(0)),
         El("R1", "R", 1, 2, 0, 0, 0, 0, Q(1), Q(0)),
         El("R2", "R", 2, 0, 0, 0, 0, 0, Q(1), Q(0)) >>, Perms(3))
    : v1 \in Entries }

\* I1 0 1 DC 1, R1 1 0 1, D1 1 0: node 1
Rectifier ==
  { Circuit(1, 1,
      << El("I1", "I", 0, 1, 0, 0, 0, Ascii("D"), Q(1), Q(0)),
         El("R1", "R", 1, 0, 0, 0, 0, 0, Q(1), Q(0)),
         El("D1", "D", 1, 0, 0, 0, 0, 0, Q(0), Q(0)) >>, {Ident(3)}) }

\* the control pairs of an amplifier whose output is 1 0: apart from the
\* output, across it, and sharing the output node
ControlPairs == {<<2, 0>>, <<1, 0>>, <<0, 1>>, <<2, 1>>, <<1, 2>>}

\* V1 2 0 DC v, R1 1 0 1, E1 1 0 c d av: nodes 1, 2, currents 3 and 4
Amplifier ==
  { Circuit(4, 0,
      << El("V1", "V", 2, 0, 0, 0, 3, Ascii("D"), Q(v1), Q(0)),
         El("R1", "R", 1, 0, 0, 0, 0, 0, Q(1), Q(0)),
         El("E1", "E", 1, 0, cd[1], cd[2], 4, 0, Q(av), Q(0)) >>,
      {Ident(3)})
    : v1 \in Entries, av \in {1, 2}, cd \in ControlPairs }

\* I1 0 2 DC i, R1 1 0 1, R2 2 0 1, F1 1 0 c d ai: nodes 1, 2, current 3
Mirror ==
  { Circuit(3, 0,
      << El("I1", "I", 0, 2, 0, 0, 0, Ascii("D"), Q(i1), Q(0)),
         El("R1", "R", 1, 0, 0, 0, 0, 0, Q(1), Q(0)),
         El("R2", "R", 2, 0, 0, 0, 0, 0, Q(1), Q(0)),
         El("F1", "F", 1, 0, cd[1], cd[2], 3, 0, Q(ai), Q(0)) >>,
      {Ident(4)})
    : i1 \in Entries, ai \in {1, 2}, cd \in ControlPairs }

\* G r 0 c 0 g for every r, c of 1..v and I 0 r DC i for every r: the
\* netlists that assemble every system of v equations with small entries
Dense(v) ==
  { Circuit(v, 0,
      [k \in 1..(v * v + v) |->
         IF k <= v * v
           THEN El("G", "G", ((k - 1) \div v) + 1, 0, ((k - 1) % v) + 1, 0,
                   0, 0, Q(m[k]), Q(0))
           ELSE El("I", "I", 0, k - v * v, 0, 0, 0, Ascii("D"),
                   Q(m[k]), Q(0))],
      {Ident(v * v + v)})
    : m \in [1..(v * v + v) -> Entries] }

\* R k 0 1 for every node k of 1..MAX_NOS-1 and I1 0 1 DC 1: the largest
\* system whose right-hand side still lies inside the rows of Yn
Wide ==
  { Circuit(MAX_NOS - 1, 0,
      [k \in 1..MAX_NOS |->
         IF k < MAX_NOS
           THEN El("R", "R", k, 0, 0, 0, 0, 0, Q(1), Q(0))
           ELSE El("I1", "I", 0, 1, 0, 0, 0, Ascii("D"), Q(1), Q(0))],
      {Ident(MAX_NOS)}) }

Circuits == TwoSources \cup Coupled \cup Divider \cup Rectifier
              \cup Dense(1) \cup Dense(2) \cup Wide
              \cup Amplifier \cup Mirror

\* line 790: for (i=1; i<=nv; i++)
SeedIndices(v) == 1..v

\* lines 782-786, the largest change of the solution
RECURSIVE ErroMax(_, _, _, _)
ErroMax(Y, v, sol, i) ==
  IF i > v THEN Q(0)
  ELSE LET erro == QAbs(QSub(sol[i], Get(Y, i, v + 1)))
           rest == ErroMax(Y, v, sol, i + 1)
       IN IF QLess(rest, erro) THEN erro ELSE rest

\* the engine variables the numerical pass does not use
iterRest == <<pc, netlist, tempo, npontos, npassos, ntotal, dt1, dta, t, n,
              primeira, p3, p3writes, dtlog, regra, mnaVars>>

\* lines 460-475 for step n=0 of a circuit as the reader leaves it:
\* en[0..nv] is zeroed, dt is the startup step, the system is zeroed
InitIter ==
  /\ ppc = "idle" /\ arquivo = <<>> /\ ne = 0 /\ nn = 0 /\ lista = <<>>
  /\ chamadas = <<>> /\ lidos = <<>>
  /\ pc = "idle" /\ netlist = <<>>
  /\ tempo = 0 /\ npontos = 0 /\ npassos = 0 /\ ntotal = 0
  /\ dt1 = InicialDen /\ dt = StartupDt(InicialDen) /\ dta = 0 /\ t = 0
  /\ n = 0 /\ primeira = 0
  /\ p3 = <<>> /\ p3writes = <<>> /\ dtlog = <<>>
  /\ regra = metodo
  /\ NewtonIdle /\ MakeIdle /\ NoLinearCircuit = 0
  /\ \E c \in Circuits : \E o \in c.ords :
       /\ nv = c.nv
       /\ elem = c.elem
       /\ nao_linear = c.nl
       /\ ordem = o
       /\ en = [i \in 0..c.nv |-> Q(0)]
       /\ et = [i \in 0..c.nv |-> Q(0)]
       /\ Yn = ZeroSystem(c.nv)
  /\ iteracoes = 0 /\ reinicios = 0 /\ erro_max = Q(0)
  /\ rows = <<>>
  /\ solves = 0
  /\ ipc = "stamp"
  /\ feitos = 0
  /\ gi = 0
  /\ hist = [Y0 |-> <<>>, pivots |-> <<>>, G |-> <<>>, Gok |-> TRUE,
             vd |-> <<>>]

\* lines 477-751, the stamp of one element; after the last one
\* resolversistema is entered (line 752)
StampNext ==
  /\ ipc = "stamp"
  /\ feitos < Len(ordem)
  /\ \E lin \in DiodeLin :
       LET e == elem[ordem[feitos + 1]]
           Y == Stamp(Yn, nv, elem, ordem[feitos + 1], Q(dt), lin)
           d == IF e.tipo = "D"
                  THEN Append(hist.vd,
                         [use |-> DiodeV(n, iteracoes, en[e.a], en[e.b]),
                          pass |-> solves + 1, ea |-> en[e.a],
                          eb |-> en[e.b]])
                  ELSE hist.vd
       IN /\ Yn' = Y
          /\ IF feitos + 1 = Len(ordem)
               THEN /\ ipc' = "pivot"
                    /\ gi' = 1
                    /\ hist' = [Y0 |-> Y, pivots |-> <<>>,
                                  G |-> Grounded(Y, nv), Gok |-> TRUE,
                                  vd |-> d]
                    /\ solves' = solves + 1
               ELSE /\ hist' = [hist EXCEPT !.vd = d]
                    /\ UNCHANGED <<ipc, gi, solves>>
  /\ feitos' = feitos + 1
  /\ UNCHANGED <<ordem, en, et, nv, elem, nao_linear, iteracoes, reinicios,
                 erro_max, rows, dt>>
  /\ UNCHANGED <<iterRest, parseVars>>

\* lines 132-160, one column of resolversistema
PivotStep ==
  /\ ipc = "pivot"
  /\ LET r == PivotColumn(Yn, nv, gi)
         s == PivotColumn(hist.G, nv, gi)
     IN /\ Yn' = r.Y
        /\ hist' = [Y0 |-> hist.Y0,
                    pivots |-> Append(hist.pivots,
                                 [col |-> gi, a |-> r.a, tt |-> r.tt,
                                  antes |-> [l \in gi..nv |-> Get(Yn, l, gi)]]),
                    G |-> IF hist.Gok THEN s.Y ELSE hist.G,
                    Gok |-> hist.Gok /\ s.ok,
                    vd |-> hist.vd]
        /\ IF ~r.ok THEN ipc' = "singular" /\ UNCHANGED gi
           ELSE IF gi = nv THEN ipc' = "solved" /\ UNCHANGED gi
           ELSE ipc' = "pivot" /\ gi' = gi + 1
  /\ UNCHANGED <<ordem, feitos, en, et, nv, elem, nao_linear, iteracoes,
                 reinicios, erro_max, rows, solves, dt>>
  /\ UNCHANGED <<iterRest, parseVars>>

\* lines 774-786: the iteration is counted and the solution copied to en
Adopt ==
  /\ ipc = "solved"
  /\ iteracoes' = iteracoes + 1
  /\ IF IterLimit(iteracoes + 1)
       THEN ipc' = "nonconv" /\ UNCHANGED <<en, erro_max>>
       ELSE /\ ipc' = "adopted"
            /\ erro_max' = ErroMax(Yn, nv, en, 1)
            /\ en' = [i \in 0..nv |-> IF i \in 1..nv THEN Get(Yn, i, nv + 1)
                                      ELSE en[i]]
  /\ UNCHANGED <<Yn, ordem, feitos, gi, hist, et, nv, elem, nao_linear,
                 reinicios, rows, solves, dt>>
  /\ UNCHANGED <<iterRest, parseVars>>

\* lines 787-795: the random re-seed
Reseed ==
  /\ ipc = "adopted"
  /\ RestartDue(iteracoes) /\ RestartAllowed(reinicios)
  /\ reinicios' = reinicios + 1
  /\ \E r \in [SeedIndices(nv) -> RandValues] :
       en' = [i \in 0..nv |-> IF i \in SeedIndices(nv) THEN r[i] ELSE en[i]]
  /\ iteracoes' = 0
  /\ ipc' = "seeded"
  /\ UNCHANGED <<Yn, ordem, feitos, gi, hist, et, nv, elem, nao_linear,
                 erro_max, rows, solves, dt>>
  /\ UNCHANGED <<iterRest, parseVars>>

\* the pass is over, with or without a re-seed
PassOver ==
  \/ ipc = "seeded"
  \/ ipc = "adopted" /\ ~(RestartDue(iteracoes) /\ RestartAllowed(reinicios))

\* line 798 true and lines 471-475: another pass, the system is zeroed
Again ==
  /\ PassOver
  /\ nao_linear # 0 /\ AboveTOLE(erro_max)
  /\ solves < MaxIterations
  /\ Yn' = ZeroSystem(nv)
  /\ feitos' = 0
  /\ gi' = 0
  /\ hist' = [Y0 |-> <<>>, pivots |-> <<>>, G |-> <<>>, Gok |-> TRUE,
              vd |-> <<>>]
  /\ ipc' = "stamp"
  /\ UNCHANGED <<ordem, en, et, nv, elem, nao_linear, iteracoes, reinicios,
                 erro_max, rows, solves, dt>>
  /\ UNCHANGED <<iterRest, parseVars>>

\* line 798 false and lines 813-818: the step is accepted, its row written
Emit ==
  /\ PassOver
  /\ ~(nao_linear # 0 /\ AboveTOLE(erro_max))
  /\ et' = [i \in 0..nv |-> IF i \in 1..nv THEN en[i] ELSE et[i]]
  /\ rows' = Append(rows, [i \in 1..nv |-> en[i]])
  /\ ipc' = "done"
  /\ UNCHANGED <<Yn, ordem, feitos, gi, hist, en, nv, elem, nao_linear,
                 iteracoes, reinicios, erro_max, solves, dt>>
  /\ UNCHANGED <<iterRest, parseVars>>

NextIter == StampNext \/ PivotStep \/ Adopt \/ Reseed \/ Again \/ Emit

SpecIter == InitIter /\ [][NextIter]_vars


\* ---------------------------------------------------------------------
\* Properties of the numerical pass (SpecIter)

\* the pivot search number k of this solve ended with the singular error
PivotFailed(k) == k = Len(hist.pivots) /\ ipc = "singular"

\* C16: resolversistema stops with the singular-system error at column i
\* exactly when every |Y[l][i]|, l >= i, is below 1e-12; otherwise the
\* pivot it divides by is an entry of column i, rows l >= i, of largest
\* absolute value.
C16_PivotRule ==
  /\ ipc = "singular" => Len(hist.pivots) >= 1
  /\ \A k \in 1..Len(hist.pivots) :
       LET pv == hist.pivots[k]
           allBelow == \A l \in pv.col..nv : BelowTOLG(pv.antes[l])
       IN /\ PivotFailed(k) <=> allBelow
          /\ ~allBelow =>
               /\ pv.a \in pv.col..nv
               /\ pv.tt = pv.antes[pv.a]
               /\ \A l \in pv.col..nv :
                    ~QLess(QAbs(pv.tt), QAbs(pv.antes[l]))

C16_Witness ==
  /\ ipc = "singular"
  /\ \E k \in 1..Len(hist.pivots) :
       /\ hist.pivots[k].a # hist.pivots[k].col
       /\ hist.pivots[k].tt[1] < 0

RECURSIVE Dot(_, _, _, _)
Dot(Y0, Y, r, c) ==
  IF c = 0 THEN Q(0)
  ELSE QAdd(QMul(Get(Y0, r, c), Get(Y, c, nv + 1)), Dot(Y0, Y, r, c - 1))

\* C17: when resolversistema returns, Y[1..nv][1..nv] is the identity and
\* column nv+1 solves the system as it was before the call.
C17_SolvesSystem ==
  ipc = "solved" =>
    /\ \A r, c \in 1..nv : Get(Yn, r, c) = IF r = c THEN Q(1) ELSE Q(0)
    /\ \A r \in 1..nv : Dot(hist.Y0, Yn, r, nv) = Get(hist.Y0, r, nv + 1)

C17_Witness ==
  /\ ipc = "solved"
  /\ nv >= 2
  /\ \E k \in 1..Len(hist.pivots) : hist.pivots[k].a # hist.pivots[k].col
  /\ \A r \in 1..nv : Get(Yn, r, nv + 1) # Q(0)

\* the netlist holds two V sources between the same nodes, values differing
TwoSourcesDiffer ==
  \E i, j \in 1..Len(elem) :
    /\ i # j
    /\ elem[i].tipo = "V" /\ elem[j].tipo = "V"
    /\ elem[i].a = elem[j].a /\ elem[i].b = elem[j].b
    /\ elem[i].p1 # elem[j].p1

\* C18: two V sources of different values between the same pair of nodes:
\* the first solve, at n = 0, ends with the singular error and no row is
\* written.
C18_ParallelSourcesSingular ==
  TwoSourcesDiffer =>
    /\ ipc \in {"stamp", "pivot", "singular"}
    /\ rows = <<>>
    /\ n = 0 /\ solves <= 1 /\ iteracoes = 0
    /\ (ipc = "pivot" /\ gi = nv) => ~PivotColumn(Yn, nv, gi).ok

C18_Witness == TwoSourcesDiffer /\ ipc = "singular" /\ solves = 1

\* C19: en[0] is 0 in every state, and the solution of indices 1..nv is
\* the one the same system gives with row 0 and column 0 zeroed (hist.G is
\* that system, taken through the same steps of resolversistema).
C19_GroundNotUnknown ==
  /\ en[0] = Q(0)
  /\ ipc \in {"solved", "singular"} =>
       /\ hist.Gok <=> ipc = "solved"
       /\ hist.Gok => \A i \in 1..nv :
                        Get(hist.G, i, nv + 1) = Get(Yn, i, nv + 1)

\* the system the stamps give in the order of the netlist
InNetlistOrder ==
  Assemble(ZeroSystem(nv), nv, elem, [i \in 1..Len(elem) |-> i], Q(dt),
           [g |-> Q(0), id |-> Q(0)])

\* rows 1..nv and columns 1..nv+1 of the assembled system are those of Y
SameSystem(Y) ==
  \A r \in 1..nv : \A c \in 1..(nv + 1) : Get(hist.Y0, r, c) = Get(Y, r, c)

\* position of element k in the order of stamping
PosIn(ord, k) == CHOOSE q \in 1..Len(ord) : ord[q] = k

\* every K is stamped after the two elements it references
KAfterInductors ==
  \A k \in 1..Len(elem) :
    elem[k].tipo = "K" =>
      /\ PosIn(ordem, elem[k].a) < PosIn(ordem, k)
      /\ PosIn(ordem, elem[k].b) < PosIn(ordem, k)

C22_SeedOnlyFirstPass ==
  \A i \in 1..Len(hist.vd) :
    LET d == hist.vd[i]
    IN /\ d.use.seed <=> (n = 0 /\ d.pass = 1)
       /\ ~d.use.seed =>
            d.use.v = IF QLess(<<9, 10>>, QSub(d.ea, d.eb)) THEN <<9, 10>>
                      ELSE QSub(d.ea, d.eb)

\* ---------------------------------------------------------------------
\* The controlled sources
\* ---------------------------------------------------------------------

\* q when i = j and 0 otherwise
At(i, j, q) == IF i = j THEN q ELSE Q(0)

\* the sum of the four contributions of a controlled source at index j
Sum4(j, ia, qa, ib, qb, ic, qc, id, qd) ==
  QAdd(QAdd(At(j, ia, qa), At(j, ib, qb)),
       QAdd(At(j, ic, qc), At(j, id, qd)))

\* C25: once the system is assembled, row x of an E element holds at
\* every unknown j the sum of +1 at a, -1 at b, -Av at c and +Av at d,
\* and column x of an F element holds at every unknown j the sum of +Ai
\* at a, -Ai at b, +1 at c and -1 at d, also when indices coincide.
C25_ControlledAdditive ==
  hist.Y0 # <<>> =>
    \A k \in DOMAIN elem : \A j \in 1..nv :
      LET e == elem[k]
      IN /\ e.tipo = "E" =>
              Get(hist.Y0, e.x, j) =
                Sum4(j, e.a, Q(1), e.b, Q(-1), e.c, QNeg(e.p1), e.d, e.p1)
         /\ e.tipo = "F" =>
              Get(hist.Y0, j, e.x) =
                Sum4(j, e.a, e.p1, e.b, QNeg(e.p1), e.c, Q(1), e.d, Q(-1))

\* ---------------------------------------------------------------------
\* The dimensions of the arrays
\* ---------------------------------------------------------------------

\* C29: with nv <= MAX_NOS every row and column the engine zeroes,
\* stamps and solves (0..nv+1) and every entry of en and et (0..nv) lies
\* inside Yn[MAX_NOS][MAX_NOS], en[MAX_NOS] and et[MAX_NOS], and the
\* cells of the system are distinct cells of the array.
C29_IndicesInside ==
  nv <= MAX_NOS =>
    /\ \A r \in ZeroRange(nv) : r < MAX_NOS
    /\ \A i \in DOMAIN en : i < MAX_NOS
    /\ \A i \in DOMAIN et : i < MAX_NOS
    /\ \A r1, r2, c1, c2 \in ZeroRange(nv) :
         Off(r1, c1) = Off(r2, c2) => r1 = r2 /\ c1 = c2

\* ---------------------------------------------------------------------
\* SpecTran: the time steps of a linear circuit with numbers.  Times are
\* counted in thousandths of a unit, so that the startup step is whole.
\* ---------------------------------------------------------------------

\* steps n = 0..MaxTran are followed
MaxTran == 3

\* line 100: the values the comment gives to metodo
Metodos == {1, 2, 3}

\* the nominal step dt1 of the runs followed: the startup step is 2
TranDt1 == 2 * InicialDen

\* lines 607-611 and 619-623: the value of a source at time tt; p is
\* the field p3 of the element.  SIN sources are not followed.
Waveform_late(e, p, tt) ==
  CASE e.y = Ascii("D") -> e.p1
    [] e.y = Ascii("P") -> IF ~QLess(p, Q(tt)) THEN e.p1 ELSE e.p2

Waveform(e, p, tt) ==
  CASE e.y = Ascii("D") -> e.p1
    [] e.y = Ascii("P") -> IF QLess(Q(tt), p) THEN e.p1 ELSE e.p2

\* the source voltage is one step of the previous size away
Companion_prev(cap, vprev, pold, step, stepa) ==
  LET g == QDiv(QMul(Q(2), cap), stepa)
      tmp == QMul(QDiv(QMul(Q(2), cap), stepa), QSub(vprev, pold))
  IN QAdd(vprev, QDiv(tmp, g))

\* lines 491, 497-499: the voltage of the companion source of a capacitor
\* from the last accepted voltage vprev and the previous source pold
Companion(cap, vprev, pold, step, stepa) ==
  LET g == QDiv(QMul(Q(2), cap), step)
      tmp == QMul(QDiv(QMul(Q(2), cap), stepa), QSub(vprev, pold))
  IN QAdd(vprev, QDiv(tmp, g))

\* lines 482-505: the stamp of a capacitor and the new p3 of the element
StampC(Y, v, e, p, step, stepa, k, prim, m, sol) ==
  IF m < 3
    THEN LET g == QDiv(e.p1, step)
             tmp == IF k = 0 THEN e.p2 ELSE QSub(sol[e.a], sol[e.b])
         IN [Y |-> Fonte(Condutancia(Y, e.a, e.b, g), v, e.b, e.a,
                         QMul(g, tmp)),
             p |-> p]
    ELSE LET g == QDiv(QMul(Q(2), e.p1), step)
             q == IF prim = 0 THEN p
                  ELSE IF k = 0 THEN e.p2
                  ELSE Companion(e.p1, QSub(sol[e.a], sol[e.b]), p,
                                 step, stepa)
         IN [Y |-> Fonte(Condutancia(Y, e.a, e.b, g), v, e.b, e.a,
                         QMul(g, q)),
             p |-> q]

\* lines 506-552: the stamp of an inductor under the three rules
StampLT(Y, v, e, step, k, m, sol) ==
  LET g == IF m \in {1, 2} THEN QDiv(e.p1, step)
           ELSE QDiv(QMul(e.p1, Q(2)), step)
      Y1 == SetTo(Y, e.a, e.x, Q(1))
      Y2 == SetTo(Y1, e.b, e.x, Q(-1))
      Y3 == IF m = 2 THEN Y2 ELSE SetTo(Y2, e.x, e.a, Q(-1))
      Y4 == IF m = 2 THEN Y3 ELSE SetTo(Y3, e.x, e.b, Q(1))
      Y5 == SetTo(Y4, e.x, e.x, g)
      tmp == IF k = 0 THEN e.p2 ELSE sol[e.x]
      Y6 == SetTo(Y5, e.x, v + 1, QMul(g, tmp))
  IN IF m # 1 /\ k > 0
       THEN AddTo(Y6, e.x, v + 1, QSub(sol[e.a], sol[e.b]))
       ELSE Y6

\* lines 588-602: the stamp of a mutual inductance under the three rules
StampKT(Y, v, e, arr, step, k, m, sol) ==
  LET g0 == QDiv(e.p2, step)
      g == IF m = 3 THEN QMul(g0, Q(2)) ELSE g0
      Y1 == AddTo(Y, e.x, e.y, g)
      Y2 == AddTo(Y1, e.y, e.x, g)
      tb == IF k = 0 THEN arr[e.b].p2 ELSE sol[arr[e.b].x]
      Y3 == AddTo(Y2, e.x, v + 1, QMul(g, tb))
      ta == IF k = 0 THEN arr[e.a].p2 ELSE sol[arr[e.a].x]
  IN AddTo(Y3, e.y, v + 1, QMul(g, ta))

\* lines 479-643: the stamp of element i at step k and time tt, with the
\* p3 it leaves in the element
StampT(Y, v, arr, i, p, step, stepa, tt, k, prim, m, sol) ==
  LET e == arr[i]
      none == [g |-> Q(0), id |-> Q(0)]
  IN CASE e.tipo = "C" ->
            StampC(Y, v, e, p, step, stepa, k, prim, m, sol)
       [] e.tipo = "L" ->
            [Y |-> StampLT(Y, v, e, step, k, m, sol), p |-> p]
       [] e.tipo = "K" ->
            [Y |-> StampKT(Y, v, e, arr, step, k, m, sol), p |-> p]
       [] e.tipo \in {"I", "V"} ->
            [Y |-> Stamp(Y, v, [arr EXCEPT ![i].p1 = Waveform(e, p, tt)],
                         i, step, none),
             p |-> p]
       [] OTHER -> [Y |-> Stamp(Y, v, arr, i, step, none), p |-> p]

\* lines 477-478: for (i=1; i<=ne; i++), from element i on
RECURSIVE AssembleT(_, _, _, _, _, _, _, _, _, _, _, _)
AssembleT(Y, v, arr, i, pp, step, stepa, tt, k, prim, m, sol) ==
  IF i > Len(arr) THEN [Y |-> Y, pp |-> pp]
  ELSE LET r == StampT(Y, v, arr, i, pp[i], step, stepa, tt, k, prim, m, sol)
       IN AssembleT(r.Y, v, arr, i + 1, [pp EXCEPT ![i] = r.p],
                    step, stepa, tt, k, prim, m, sol)

\* lines 131-161: resolversistema from column i on
RECURSIVE ResolverSistema(_, _, _)
ResolverSistema(Y, v, i) ==
  IF i > v THEN [ok |-> TRUE, Y |-> Y]
  ELSE LET r == PivotColumn(Y, v, i)
       IN IF r.ok THEN ResolverSistema(r.Y, v, i + 1)
          ELSE [ok |-> FALSE, Y |-> r.Y]

\* a netlist as the reader leaves it, nv, the elements and their p3,
\* and the number ntotal of steps asked for
Tran(v, arr, pp, tot) == [nv |-> v, elem |-> arr, p3 |-> pp, ntotal |-> tot]

\* DC v and PULSE (a1 a2 delay), as <<y, p1, p2, p3>>
Waves ==
  { <<Ascii("D"), Q(v1), Q(0), Q(0)>> : v1 \in Entries }
    \cup { <<Ascii("P"), Q(a1), Q(a2), Q(k * TranDt1)>>
           : a1 \in Entries, a2 \in Entries, k \in {1, 2} }

\* V1 1 0 w, R1 1 2 1, C1 2 0 1000 IC=ic: nodes 1, 2, current 3
TranRC ==
  { Tran(3,
      << El("V1", "V", 1, 0, 0, 0, 3, w[1], w[2], w[3]),
         El("R1", "R", 1, 2, 0, 0, 0, 0, Q(1), Q(0)),
         El("C1", "C", 2, 0, 0, 0, 0, 0, Q(1000), Q(ic)) >>,
      << w[4], Q(0), Q(0) >>, MaxTran)
    : w \in Waves, ic \in Entries }

\* I1 0 1 w, R1 1 0 1, R2 1 2 1, C1 2 0 1000 IC=ic: nodes 1, 2
TranIRC ==
  { Tran(2,
      << El("I1", "I", 0, 1, 0, 0, 0, w[1], w[2], w[3]),
         El("R1", "R", 1, 0, 0, 0, 0, 0, Q(1), Q(0)),
         El("R2", "R", 1, 2, 0, 0, 0, 0, Q(1), Q(0)),
         El("C1", "C", 2, 0, 0, 0, 0, 0, Q(1000), Q(ic)) >>,
      << w[4], Q(0), Q(0), Q(0) >>, MaxTran)
    : w \in Waves, ic \in Entries }

\* L1 1 0 1000 IC=i1, L2 2 0 1000 IC=i2, K1 L1 L2 0.5, R1 1 0 1,
\* R2 2 0 1: nodes 1, 2, currents 3, 4; one step less is asked for
TranCoupled ==
  { Tran(4,
      << El("L1", "L", 1, 0, 0, 0, 3, 0, Q(1000), Q(i1)),
         El("L2", "L", 2, 0, 0, 0, 4, 0, Q(1000), Q(i2)),
         El("K1", "K", 1, 2, 0, 0, 3, 4, <<1, 2>>, Q(500)),
         El("R1", "R", 1, 0, 0, 0, 0, 0, Q(1), Q(0)),
         El("R2", "R", 2, 0, 0, 0, 0, 0, Q(1), Q(0)) >>,
      << Q(0), Q(0), Q(0), Q(0), Q(0) >>, MaxTran - 1)
    : i1 \in Entries, i2 \in Entries }

TranCircuits == TranRC \cup TranIRC \cup TranCoupled

\* the variables the time marching does not use
tranRest == <<pc, netlist, nao_linear, tempo, npontos, reinicios, erro_max,
              p3writes, dtlog, ordem, feitos, gi, mnaVars>>

\* what a run does not change
tranFixed == <<nv, elem, ntotal, npassos, dt1, regra>>

\* lines 458-467 for a linear circuit as the reader leaves it.  The
\* rule is the initialiser of metodo at line 100, which nothing assigns
\* afterwards: a build runs with one of the values its comment lists.
InitTran ==
  /\ ppc = "idle" /\ arquivo = <<>> /\ ne = 0 /\ nn = 0 /\ lista = <<>>
  /\ chamadas = <<>> /\ lidos = <<>>
  /\ pc = "idle" /\ netlist = <<>> /\ nao_linear = 0
  /\ tempo = 0 /\ npontos = 0 /\ reinicios = 0 /\ erro_max = Q(0)
  /\ p3writes = <<>> /\ dtlog = <<>>
  /\ ordem = <<>> /\ feitos = 0 /\ gi = 0
  /\ NewtonIdle /\ MakeIdle /\ NoLinearCircuit = 0
  /\ regra \in Metodos
  /\ npassos = 1
  /\ dt1 = TranDt1 /\ dt = StartupDt(TranDt1) /\ dta = 0 /\ t = 0
  /\ n = 0 /\ iteracoes = 0 /\ primeira = 1
  /\ \E c \in TranCircuits :
       /\ nv = c.nv
       /\ elem = c.elem
       /\ p3 = c.p3
       /\ ntotal = c.ntotal
       /\ en = [i \in 0..c.nv |-> Q(0)]
       /\ et = [i \in 0..c.nv |-> Q(0)]
       /\ Yn = ZeroSystem(c.nv)
  /\ rows = <<>>
  /\ solves = 0
  /\ ipc = "tstamp"
  /\ hist = [Y0 |-> <<>>, p3a |-> <<>>]

\* lines 471-751: the system is zeroed and every element stamped
TranAssemble ==
  /\ ipc = "tstamp"
  /\ LET r == AssembleT(ZeroSystem(nv), nv, elem, 1, p3, Q(dt), Q(dta), t,
                        n, primeira, regra, et)
     IN /\ Yn' = r.Y
        /\ p3' = r.pp
        /\ hist' = [Y0 |-> r.Y, p3a |-> p3]
  /\ solves' = solves + 1
  /\ ipc' = "tsolve"
  /\ UNCHANGED <<en, et, dt, dta, t, n, iteracoes, primeira, rows>>
  /\ UNCHANGED <<tranFixed, tranRest, parseVars>>

\* lines 752-798: resolversistema, then the solution is copied to en;
\* nao_linear is 0 and the loop ends
TranSolve ==
  /\ ipc = "tsolve"
  /\ LET r == ResolverSistema(Yn, nv, 1)
     IN /\ Yn' = r.Y
        /\ IF r.ok
             THEN /\ en' = [i \in 0..nv |-> IF i \in 1..nv
                                              THEN Get(r.Y, i, nv + 1)
                                              ELSE en[i]]
                  /\ iteracoes' = iteracoes + 1
                  /\ primeira' = NextPrimeira(primeira)
                  /\ ipc' = "taccept"
             ELSE /\ ipc' = "tsingular"
                  /\ UNCHANGED <<en, iteracoes, primeira>>
  /\ UNCHANGED <<et, p3, hist, dt, dta, t, n, rows, solves>>
  /\ UNCHANGED <<tranFixed, tranRest, parseVars>>

\* lines 813-821 and 468-469: the step is accepted and the next begins
TranAccept ==
  /\ ipc = "taccept"
  /\ et' = [i \in 0..nv |-> IF i \in 1..nv THEN en[i] ELSE et[i]]
  /\ rows' = IF EmitsRow(n, npassos)
               THEN Append(rows, [i \in 1..nv |-> en[i]])
               ELSE rows
  /\ dta' = NextDta(dt, dt1)
  /\ dt' = dt1
  /\ t' = NextT(t, dt, dt1)
  /\ n' = n + 1
  /\ IF n + 1 <= ntotal
       THEN ipc' = "tstamp" /\ iteracoes' = 0 /\ primeira' = 1
       ELSE ipc' = "tdone" /\ UNCHANGED <<iteracoes, primeira>>
  /\ UNCHANGED <<en, Yn, p3, hist, solves>>
  /\ UNCHANGED <<tranFixed, tranRest, parseVars>>

NextTran == TranAssemble \/ TranSolve \/ TranAccept

SpecTran == InitTran /\ [][NextTran]_vars

\* ---------------------------------------------------------------------
\* The reactive elements and the sources in time
\* ---------------------------------------------------------------------

\* the capacitors of the netlist
Capacitors == {k \in DOMAIN elem : elem[k].tipo = "C"}

\* the voltage last accepted across element k
VPrev(k) == QSub(et[elem[k].a], et[elem[k].b])

\* the branch current of capacitor k at the step last accepted, from the
\* companion source pold that step used
IPrev(k, pold) ==
  QMul(QDiv(QMul(Q(2), elem[k].p1), Q(dta)), QSub(VPrev(k), pold))

\* a step after the first has been assembled under the trapezoidal rule
Assembled == ipc = "tsolve" /\ regra = 3 /\ n >= 1

\* C21 as stated: the companion voltage of every capacitor at a step
\* after the first is v_prev + i_prev*dt_prev/(2C), with dt_prev the
\* size of the step before.
C21_CompanionPrevStep ==
  Assembled =>
    \A k \in Capacitors :
      p3[k] = QAdd(VPrev(k),
                   QDiv(QMul(IPrev(k, hist.p3a[k]), Q(dta)),
                        QMul(Q(2), elem[k].p1)))

\* C21: the companion voltage of every capacitor at a step after the
\* first is v_prev + i_prev*dt/(2C), where i_prev is taken with the size
\* dt_prev of the step before and dt is the size of the step assembled.
C21_CompanionThisStep ==
  Assembled =>
    \A k \in Capacitors :
      p3[k] = QAdd(VPrev(k),
                   QDiv(QMul(IPrev(k, hist.p3a[k]), Q(dt)),
                        QMul(Q(2), elem[k].p1)))

\* step 1 assembled with a capacitor that carried current at step 0
C21_Witness ==
  /\ Assembled /\ n = 1 /\ dt # dta
  /\ \E k \in Capacitors : VPrev(k) # hist.p3a[k]

\* C23: the value stamped for a V or I source is A1 before the delay
\* and A2 from the delay on for PULSE (A1 A2 delay), and v at every time
\* for DC v.  The I sources of the netlists followed are alone on the
\* right-hand side of their node b.
C23_SourceValue ==
  ipc = "tsolve" =>
    \A k \in DOMAIN elem :
      LET e == elem[k]
          value == IF e.y = Ascii("D") THEN e.p1
                   ELSE IF t * p3[k][2] < p3[k][1] THEN e.p1 ELSE e.p2
      IN /\ e.tipo = "V" => Get(hist.Y0, e.x, nv + 1) = value
         /\ e.tipo = "I" => Get(hist.Y0, e.b, nv + 1) = value

\* a PULSE source with two levels stamped at the time of its delay
C23_Witness ==
  /\ ipc = "tsolve"
  /\ \E k \in DOMAIN elem :
       /\ elem[k].tipo \in {"V", "I"}
       /\ elem[k].y = Ascii("P")
       /\ elem[k].p1 # elem[k].p2
       /\ p3[k] = Q(t) /\ t > 0

NUMBER_MAX_OF_GUESSES == 100

\* Mna.cpp line 120: if((NumberOfExecutionNewtonRaphson == 20))
GuessEvery == 20

\* Mna.cpp lines 41 and 210: NumberOfExecutionNewtonRaphson = 20
ExecutionsAtStart == 20

\* output points followed, t = 0, Step, ..., MaxPoints * Step
MaxPoints == 1

\* Mna.cpp line 116: tolerance > TOLERANCE, with TOLERANCE 1E-12
AboveTolerance(p) == p[1] > (p[2] \div Million) \div Million

\* Mna.cpp line 155: the values fabs(x[i] - xNewtonRaphson[i]) may leave
ToleranceValues == {Q(0), Q(1)}

\* Mna.cpp line 121: the test that aborts the analysis
GuessesSpent(k) == k > NUMBER_MAX_OF_GUESSES

\* the variables the loops of Mna.cpp do not use
newtonRest == <<engineVars, en, parseVars, sharedVars,
                ipc, Yn, ordem, feitos, gi, hist, regra, makeVars>>

\* Mna.cpp lines 17-88: the locals of main once the netlist is read
InitNewton ==
  /\ EngineIdle /\ en = Zero /\ ParseIdle
  /\ ipc = "idle" /\ Yn = <<>> /\ ordem = <<>> /\ feitos = 0 /\ gi = 0
  /\ hist = <<>> /\ regra = metodo
  /\ MakeIdle
  /\ gpc = "time"
  /\ NumberOfGuesses = 0
  /\ NumberOfExecutionNewtonRaphson = ExecutionsAtStart
  /\ internalStep = 0
  /\ MaxInternalStep = 1
  /\ tolerance = Q(1)
  /\ NoLinearCircuit \in {0, 1}
  /\ Internal_Step \in {1, 2}
  /\ Tempo_Final = MaxPoints
  /\ ponto = 0

\* Mna.cpp lines 92-103: while (t <= PSPICE.Tempo_Final)
TimeLoop ==
  /\ gpc = "time"
  /\ IF ponto <= Tempo_Final
       THEN /\ MaxInternalStep' = IF ponto = 0 THEN 1 ELSE Internal_Step
            /\ gpc' = "inner"
       ELSE /\ gpc' = "end"
            /\ UNCHANGED MaxInternalStep
  /\ UNCHANGED <<NumberOfGuesses, NumberOfExecutionNewtonRaphson,
                 internalStep, tolerance, NoLinearCircuit, Internal_Step,
                 Tempo_Final, ponto>>
  /\ UNCHANGED newtonRest

\* Mna.cpp lines 107 and 216-223: while (internalStep < MaxInternalStep),
\* and after it the row is written and t advances
InnerLoop ==
  /\ gpc = "inner"
  /\ IF internalStep < MaxInternalStep
       THEN /\ gpc' = "newton"
            /\ UNCHANGED <<internalStep, ponto>>
       ELSE /\ internalStep' = 0
            /\ ponto' = ponto + 1
            /\ gpc' = "time"
  /\ UNCHANGED <<NumberOfGuesses, NumberOfExecutionNewtonRaphson,
                 MaxInternalStep, tolerance, NoLinearCircuit, Internal_Step,
                 Tempo_Final>>
  /\ UNCHANGED newtonRest

\* Mna.cpp lines 116-133: the test of the Newton loop and the new guess
NewtonTest ==
  /\ gpc = "newton"
  /\ IF ~AboveTolerance(tolerance)
       THEN /\ gpc' = "escape"
            /\ UNCHANGED <<NumberOfGuesses, NumberOfExecutionNewtonRaphson>>
       ELSE IF NoLinearCircuit = 1
               /\ NumberOfExecutionNewtonRaphson = GuessEvery
       THEN IF GuessesSpent(NumberOfGuesses)
              THEN /\ gpc' = "exit3"
                   /\ UNCHANGED <<NumberOfGuesses,
                                  NumberOfExecutionNewtonRaphson>>
              ELSE /\ NumberOfGuesses' = NumberOfGuesses + 1
                   /\ NumberOfExecutionNewtonRaphson' = 0
                   /\ gpc' = "solve"
       ELSE /\ gpc' = "solve"
            /\ UNCHANGED <<NumberOfGuesses, NumberOfExecutionNewtonRaphson>>
  /\ UNCHANGED <<internalStep, MaxInternalStep, tolerance, NoLinearCircuit,
                 Internal_Step, Tempo_Final, ponto>>
  /\ UNCHANGED newtonRest

\* Mna.cpp lines 136-169: the system is built and solved; a linear
\* circuit leaves the loop, otherwise the change is measured
NewtonSolve ==
  /\ gpc = "solve"
  /\ IF NoLinearCircuit = 0
       THEN /\ gpc' = "escape"
            /\ UNCHANGED <<tolerance, NumberOfExecutionNewtonRaphson>>
       ELSE /\ tolerance' \in ToleranceValues
            /\ NumberOfExecutionNewtonRaphson' =
                 NumberOfExecutionNewtonRaphson + 1
            /\ gpc' = "newton"
  /\ UNCHANGED <<NumberOfGuesses, internalStep, MaxInternalStep,
                 NoLinearCircuit, Internal_Step, Tempo_Final, ponto>>
  /\ UNCHANGED newtonRest

\* Mna.cpp lines 171-211: the end of an internal step
EndInternalStep ==
  /\ gpc = "escape"
  /\ internalStep' = internalStep + 1
  /\ NumberOfGuesses' = 0
  /\ NumberOfExecutionNewtonRaphson' = ExecutionsAtStart
  /\ tolerance' = Q(1)
  /\ gpc' = "inner"
  /\ UNCHANGED <<MaxInternalStep, NoLinearCircuit, Internal_Step,
                 Tempo_Final, ponto>>
  /\ UNCHANGED newtonRest

NextNewton ==
  TimeLoop \/ InnerLoop \/ NewtonTest \/ NewtonSolve \/ EndInternalStep

SpecNewton == InitNewton /\ [][NextNewton]_vars

\* C28: a guess is made exactly when 20 iterations have passed without
\* convergence in a nonlinear circuit, at most 100 guesses are made in
\* one internal step before the analysis is aborted with exit code 3,
\* and the end of every internal step sets the guess counter to 0.
C28_GuessBudget ==
  [][ /\ NumberOfGuesses' = NumberOfGuesses + 1 =>
           NoLinearCircuit = 1 /\ NumberOfExecutionNewtonRaphson = 20
      /\ (gpc = "newton" /\ AboveTolerance(tolerance)
            /\ NoLinearCircuit = 1 /\ NumberOfExecutionNewtonRaphson = 20) =>
           (NumberOfGuesses' = NumberOfGuesses + 1 \/ gpc' = "exit3")
      /\ NumberOfGuesses' <= 100
      /\ gpc' = "exit3" => NumberOfGuesses = 100
      /\ internalStep' = internalStep + 1 => NumberOfGuesses' = 0 ]_vars

\* ---------------------------------------------------------------------
\* MnaFunctions.cpp: MakeNetList fills the array of Element from the
\* file, and main hands the array to SystemOfEquationBackward (SpecMake)
\* ---------------------------------------------------------------------

\* MnaHeader.h line 28: double ParametersValue[MAX_NUMBER_OF_PARAMETERS]
MAX_NUMBER_OF_PARAMETERS == 7

\* MnaHeader.h line 36: double InitialCondition[MAX_INITIAL_CONDITION]
MAX_INITIAL_CONDITION == 3

\* MnaHeader.h line 29
NOT_USER == 0

\* MnaHeader.h lines 37-39
REATIVE_IC == 0
LOGIC_IC_A == 1
LOGIC_IC_B == 2

\* MnaHeader.h line 42
DC_VALUE == 0

\* MnaHeader.h line 51: the last parameter of a SIN source
NUMERO_DE_CICLOS_SIN == 6

\* MnaHeader.h line 61: the last parameter of a PULSE source
NUMERO_DE_CICLOS_PULSE == 7

\* MnaHeader.h line 67: the last parameter of a logic gate
A_LOGIC == 3

\* MnaHeader.h line 84: the last parameter of an N element
NOLINEAR_CURRENT_4 == 7

\* MnaHeader.h line 33
STEPFACTOR == 1000000000

\* number of nodes declared by the first line of the file
MaxNode == 2

\* element lines of a file, the .TRAN line excluded
MaxElems == 2

\* an uninitialised double, written as a pair that no number has
Lixo == <<0, -1>>

\* the rows and columns of A and B a file within the bounds can address;
\* the cells beyond them stay at the zero of lines 834-836
Window == 0..(MaxNode + MaxElems + 1)

\* what the build may do with a store to ParametersValue[7], one past
\* the array: it lands in InitialCondition[0], the next field of the
\* struct, or the compiler drops it
PastEndOutcomes == {"alias", "elided"}

\* NetList[k].ParametersValue[i] = q
StoreP(e, i, q, out) ==
  IF i < MAX_NUMBER_OF_PARAMETERS
    THEN [e EXCEPT !.ParametersValue[i] = q]
    ELSE IF out = "alias"
           THEN [e EXCEPT !.InitialCondition[i - MAX_NUMBER_OF_PARAMETERS] = q]
           ELSE e

\* LineStream >> ParametersValue[0], ..., ParametersValue[Len(qs) - 1]
RECURSIVE StorePs(_, _, _, _)
StorePs(e, qs, i, out) ==
  IF i > Len(qs) THEN e
  ELSE StorePs(StoreP(e, i - 1, qs[i], out), qs, i + 1, out)

\* MnaFunctions.cpp lines 15-36, on the element whose ElementName line 108
\* has just set; InitialCondition[1] and [2] are left as they were
ClearNetList(nome, out) ==
  LET g == [Node_1 |-> NOT_USER, Node_2 |-> NOT_USER,
            Control_Node_1 |-> NOT_USER, Control_Node_2 |-> NOT_USER,
            Current_Main_Branch |-> NOT_USER,
            Current_Control_Branch |-> NOT_USER,
            NumberOfElement |-> NOT_USER,
            ElementValue |-> Q(NOT_USER),
            ParametersValue |->
              [i \in 0..(MAX_NUMBER_OF_PARAMETERS - 1) |-> Q(NOT_USER)],
            InitialCondition |->
              [j \in 0..(MAX_INITIAL_CONDITION - 1) |-> Lixo],
            SourceType |-> "NotUser", ElementName |-> nome,
            Number_Of_Nodes |-> NOT_USER]
      s == StoreP(g, MAX_NUMBER_OF_PARAMETERS, Q(NOT_USER), out)
  IN [s EXCEPT !.InitialCondition[0] = Q(0)]

\* the indices of ParametersValue ClearNetList writes, lines 24-31
ClearIndices == 0..MAX_NUMBER_OF_PARAMETERS

\* a line of the file: first character and name, the node numbers in the
\* order of the line, the value, IC=..., the source type and the
\* parameters
MnaLine(letra, nome, nos, valor, ic, fonte, pars) ==
  [letra |-> letra, nome |-> nome, nos |-> nos, valor |-> valor,
   ic |-> ic, fonte |-> fonte, pars |-> pars]

MnaLines ==
  { MnaLine("R", "R1", <<1, 0>>, Q(1), <<>>, "", <<>>),
    MnaLine("L", "L1", <<1, 0>>, <<1, 1000>>, <<Q(1)>>, "", <<>>),
    MnaLine("C", "C1", <<1, 0>>, <<1, 1000>>, <<Q(1)>>, "", <<>>),
    MnaLine("C", "C2", <<1, 2>>, <<1, 1000>>, <<>>, "", <<>>),
    MnaLine("E", "E1", <<2, 0, 1, 0>>, Q(2), <<>>, "", <<>>),
    MnaLine("F", "F1", <<2, 0, 1, 0>>, Q(2), <<>>, "", <<>>),
    MnaLine("G", "G1", <<2, 0, 1, 0>>, Q(2), <<>>, "", <<>>),
    MnaLine("H", "H1", <<2, 0, 1, 0>>, Q(2), <<>>, "", <<>>),
    MnaLine("I", "I1", <<0, 1>>, Q(0), <<>>, "DC", <<Q(1)>>),
    MnaLine("I", "I2", <<0, 1>>, Q(0), <<>>, "DC", <<Q(2)>>),
    MnaLine("I", "I3", <<2, 0>>, Q(0), <<>>, "SIN",
       <<Q(0), Q(1), Q(1), Q(0), Q(0), Q(0), Q(3)>>),
    MnaLine("V", "V1", <<1, 0>>, Q(0), <<>>, "DC", <<Q(1)>>),
    MnaLine("V", "V2", <<2, 0>>, Q(0), <<>>, "PULSE",
       <<Q(0), Q(1), Q(0), Q(1), Q(1), Q(2), Q(4), Q(3)>>),
    MnaLine("O", "O1", <<1, 0, 2>>, Q(0), <<>>, "", <<>>),
    MnaLine(">", ">1", <<1, 2>>, Q(0), <<>>, "", <<Q(5), Q(1), <<1, 1000>>, Q(2)>>),
    MnaLine(")", ")1", <<1, 2, 2>>, Q(0), <<>>, "",
       <<Q(5), Q(1), <<1, 1000>>, Q(2)>>),
    MnaLine("N", "N1", <<1, 2>>, Q(0), <<>>, "",
       <<Q(-2), Q(-2), Q(-1), Q(-1), Q(1), Q(1), Q(2), Q(2)>>),
    MnaLine("Z", "Z1", <<1, 0>>, Q(1), <<>>, "", <<>>) }

\* .TRAN <Tempo_Final> <Step> <BE> <Internal_Step> <UIC>: the four
\* numbers stand where a line of an element has its nodes, the word UIC
\* where a source has its type
TranLines ==
  { MnaLine(".", ".TRAN", <<1, 1, 1, 1>>, Q(0), <<>>, "", <<>>),
    MnaLine(".", ".TRAN", <<1, 1, 1, 2>>, Q(0), <<>>, "UIC", <<>>) }

RECURSIVE LinesUpTo(_)
LinesUpTo(k) ==
  IF k = 0 THEN {<<>>}
  ELSE LET s == LinesUpTo(k - 1)
       IN s \cup {Append(q, l) : q \in {x \in s : Len(x) = k - 1},
                                 l \in MnaLines}

\* the files: element lines, then the .TRAN line
MnaFiles ==
  {Append(q, z) : q \in LinesUpTo(MaxElems) \ {<<>>}, z \in TranLines}

\* MnaFunctions.cpp lines 133-137 and 158-162: IC=<value> or nothing
ReativeIC(l) == IF l.ic = <<>> THEN Q(0) ELSE l.ic[1]

\* MnaFunctions.cpp lines 114-366: the case of the switch for the line l,
\* on the cleared element c; jx is Current_JX and k NumberOfElements.
\* idx are the indices of ParametersValue the case uses, nl tells a
\* non-linear element, nome the entries added to FistLineOfOutputFile
ReadCase(c, l, jx, k, out) ==
  LET two == [c EXCEPT !.Node_1 = l.nos[1], !.Node_2 = l.nos[2],
                       !.NumberOfElement = k]
      val == [two EXCEPT !.ElementValue = l.valor]
      four == [val EXCEPT !.Control_Node_1 = l.nos[3],
                          !.Control_Node_2 = l.nos[4]]
      r(e, j, idx, nl, nome) ==
        [e |-> e, jx |-> j, idx |-> idx, nl |-> nl, nome |-> nome]
  IN CASE l.letra = "R" -> r(val, jx, {}, FALSE, <<>>)
       [] l.letra = "L" ->
            r([val EXCEPT !.InitialCondition[REATIVE_IC] = ReativeIC(l),
                          !.Current_Main_Branch = jx],
              jx + 1, {}, FALSE, <<<<jx, l.nome>>>>)
       [] l.letra = "C" ->
            r([val EXCEPT !.InitialCondition[REATIVE_IC] = ReativeIC(l)],
              jx, {}, FALSE, <<>>)
       [] l.letra = "E" ->
            r([four EXCEPT !.Current_Main_Branch = jx],
              jx + 1, {}, FALSE, <<<<jx, l.nome>>>>)
       [] l.letra = "F" ->
            r([four EXCEPT !.Current_Control_Branch = jx],
              jx + 1, {}, FALSE, <<<<jx, l.nome>>>>)
       [] l.letra = "G" -> r(four, jx, {}, FALSE, <<>>)
       [] l.letra = "H" ->
            r([four EXCEPT !.Current_Main_Branch = jx,
                           !.Current_Control_Branch = jx + 1],
              jx + 1, {}, FALSE, <<<<jx, l.nome>>, <<jx + 1, l.nome>>>>)
       [] l.letra \in {"I", "V"} ->
            LET b == IF l.letra = "V"
                       THEN [two EXCEPT !.Current_Main_Branch = jx]
                       ELSE two
                s == [b EXCEPT !.SourceType = l.fonte]
            IN r(StorePs(s, l.pars, 1, out),
                 IF l.letra = "V" THEN jx + 1 ELSE jx,
                 CASE l.fonte = "DC" -> {DC_VALUE}
                   [] l.fonte = "SIN" -> 0..NUMERO_DE_CICLOS_SIN
                   [] l.fonte = "PULSE" -> 0..NUMERO_DE_CICLOS_PULSE,
                 FALSE,
                 IF l.letra = "V" THEN <<<<jx, l.nome>>>> ELSE <<>>)
       [] l.letra = "O" ->
            r([c EXCEPT !.Control_Node_1 = l.nos[1],
                        !.Control_Node_2 = l.nos[2],
                        !.Node_1 = l.nos[3], !.Node_2 = 0,
                        !.NumberOfElement = k,
                        !.Current_Main_Branch = jx],
              jx + 1, {}, FALSE, <<<<jx, l.nome>>>>)
       [] l.letra = ">" ->
            LET s == [c EXCEPT !.Control_Node_1 = l.nos[1],
                               !.Node_2 = l.nos[2],
                               !.NumberOfElement = k]
                p == StorePs(s, l.pars, 1, out)
            IN r([p EXCEPT !.InitialCondition[LOGIC_IC_A] = Q(0)],
                 jx, 0..A_LOGIC, TRUE, <<>>)
       [] l.letra = ")" ->
            LET s == [c EXCEPT !.Control_Node_1 = l.nos[1],
                               !.Control_Node_2 = l.nos[2],
                               !.Node_2 = l.nos[3],
                               !.NumberOfElement = k]
                p == StorePs(s, l.pars, 1, out)
            IN r([p EXCEPT !.InitialCondition[LOGIC_IC_A] = Q(0),
                           !.InitialCondition[LOGIC_IC_B] = Q(0)],
                 jx, 0..A_LOGIC, TRUE, <<>>)
       [] l.letra = "N" ->
            r(StorePs(two, l.pars, 1, out), jx, 0..NOLINEAR_CURRENT_4,
              TRUE, <<>>)

\* the first characters the switch of MakeNetList has a case for
KnownLetters ==
  {"R", "L", "C", "E", "F", "G", "H", "I", "V", "O", ">", ")", "N"}

\* NetList[k] = e, the array counted from 0
PutElement(arr, k, e) ==
  IF k + 1 <= Len(arr) THEN [arr EXCEPT ![k + 1] = e] ELSE Append(arr, e)

\* the variables MakeNetList and SystemOfEquationBackward do not use
makeRest == <<engineVars, en, parseVars, sharedVars,
              ipc, Yn, ordem, feitos, gi, hist, regra,
              gpc, NumberOfGuesses, NumberOfExecutionNewtonRaphson,
              internalStep, tolerance, ponto>>

\* Mna.cpp lines 32-41 and MnaFunctions.cpp lines 46-99: main calls
\* MakeNetList, which opens the file and reads the number of nodes
InitMake ==
  /\ EngineIdle /\ en = Zero /\ ParseIdle
  /\ ipc = "idle" /\ Yn = <<>> /\ ordem = <<>> /\ feitos = 0 /\ gi = 0
  /\ hist = <<>> /\ regra = metodo
  /\ gpc = "idle" /\ NumberOfGuesses = 0
  /\ NumberOfExecutionNewtonRaphson = 0
  /\ internalStep = 0 /\ MaxInternalStep = 0 /\ tolerance = <<>>
  /\ ponto = 0
  /\ Internal_Step = 0 /\ Tempo_Final = 0
  /\ NoLinearCircuit = 0
  /\ mpc = "lines"
  /\ NetListFile \in MnaFiles
  /\ NetList = <<>>
  /\ Current_JX = MaxNode + 1
  /\ NumberOfElements = 0
  /\ NumberOfVariables = 0
  /\ acessos = {}
  /\ pastEnd \in PastEndOutcomes
  /\ B = <<>> /\ deltaT = <<>> /\ A = <<>>
  /\ PSPICE = [Step |-> 0, BE |-> 0, UIC |-> 0,
               FistLineOfOutputFile |-> <<>>]

\* MnaFunctions.cpp lines 102-366: one line of an element
MakeElement ==
  /\ mpc = "lines" /\ NetListFile # <<>>
  /\ Head(NetListFile).letra \in KnownLetters
  /\ LET l == Head(NetListFile)
         r == ReadCase(ClearNetList(l.nome, pastEnd), l, Current_JX,
                       NumberOfElements, pastEnd)
     IN /\ NetList' = PutElement(NetList, NumberOfElements, r.e)
        /\ Current_JX' = r.jx
        /\ acessos' = acessos \cup ClearIndices \cup r.idx
        /\ NoLinearCircuit' = IF r.nl THEN 1 ELSE NoLinearCircuit
        /\ PSPICE' = [PSPICE EXCEPT !.FistLineOfOutputFile = @ \o r.nome]
  /\ NumberOfElements' = NumberOfElements + 1
  /\ NetListFile' = Tail(NetListFile)
  /\ UNCHANGED <<mpc, NumberOfVariables, pastEnd, B, deltaT, A,
                 MaxInternalStep, Internal_Step, Tempo_Final>>
  /\ UNCHANGED makeRest

\* MnaFunctions.cpp lines 102-111 and 371-384: the .TRAN line
MakeTran ==
  /\ mpc = "lines" /\ NetListFile # <<>>
  /\ Head(NetListFile).letra = "."
  /\ LET l == Head(NetListFile)
         c == ClearNetList(l.nome, pastEnd)
     IN /\ NetList' = PutElement(NetList, NumberOfElements,
                                 [c EXCEPT !.ElementName = "EndOfNetList"])
        /\ Tempo_Final' = l.nos[1]
        /\ Internal_Step' = l.nos[4]
        /\ PSPICE' = [PSPICE EXCEPT !.Step = l.nos[2], !.BE = l.nos[3],
                                    !.UIC = IF l.fonte = "" THEN 0 ELSE 1]
  /\ acessos' = acessos \cup ClearIndices
  /\ NetListFile' = Tail(NetListFile)
  /\ UNCHANGED <<mpc, Current_JX, NumberOfElements, NumberOfVariables,
                 pastEnd, B, deltaT, A, MaxInternalStep, NoLinearCircuit>>
  /\ UNCHANGED makeRest

\* MnaFunctions.cpp lines 102-111 and 387-392: no case for the line
MakeUnknown ==
  /\ mpc = "lines" /\ NetListFile # <<>>
  /\ Head(NetListFile).letra \notin KnownLetters \cup {"."}
  /\ NetList' = PutElement(NetList, NumberOfElements,
                           ClearNetList(Head(NetListFile).nome, pastEnd))
  /\ acessos' = acessos \cup ClearIndices
  /\ NetListFile' = Tail(NetListFile)
  /\ mpc' = "exit0"
  /\ UNCHANGED <<Current_JX, NumberOfElements, NumberOfVariables, pastEnd,
                 B, deltaT, A, PSPICE, MaxInternalStep, NoLinearCircuit,
                 Internal_Step, Tempo_Final>>
  /\ UNCHANGED makeRest

\* MnaFunctions.cpp lines 398-402: the end of the file
MakeReturn ==
  /\ mpc = "lines" /\ NetListFile = <<>>
  /\ NetList' = [NetList EXCEPT
                   ![NumberOfElements + 1].Number_Of_Nodes = MaxNode]
  /\ NumberOfVariables' = Current_JX - 1
  /\ mpc' = "made"
  /\ UNCHANGED <<NetListFile, Current_JX, NumberOfElements, acessos,
                 pastEnd, B, deltaT, A, PSPICE, MaxInternalStep,
                 NoLinearCircuit, Internal_Step, Tempo_Final>>
  /\ UNCHANGED makeRest

\* NetList[k].ElementName[FIRST_CARACTER], lines 113 and 847
FirstChar(nome) ==
  IF nome = "EndOfNetList" THEN "E"
  ELSE (CHOOSE l \in MnaLines \cup TranLines : l.nome = nome).letra

\* the elements whose stamp reads neither the time nor the estimate of
\* Newton-Raphson: the linear ones with a DC source
Followed(e) ==
  IF FirstChar(e.ElementName) \in {"I", "V"}
    THEN e.SourceType = "DC"
    ELSE FirstChar(e.ElementName) \in {"R", "L", "C", "E", "F", "G", "H"}

\* MnaFunctions.cpp lines 545-546: the value of a DC source
IndependentSourceControlByTime(e) == e.ParametersValue[DC_VALUE]

\* MnaFunctions.cpp lines 879, 895-896, 1003-1004 and 1022: the rows of B
\* the stamp of e writes and the value it brings to each
RhsOf(e, step) ==
  LET ch == FirstChar(e.ElementName)
      ic == e.InitialCondition[REATIVE_IC]
  IN CASE ch = "L" ->
            <<<<e.Current_Main_Branch,
                QMul(QDiv(e.ElementValue, step), ic)>>>>
       [] ch = "C" ->
            <<<<e.Node_1, QMul(e.ElementValue, QDiv(ic, step))>>,
              <<e.Node_2, QMul(QNeg(e.ElementValue), QDiv(ic, step))>>>>
       [] ch = "I" ->
            <<<<e.Node_1, QNeg(IndependentSourceControlByTime(e))>>,
              <<e.Node_2, IndependentSourceControlByTime(e)>>>>
       [] ch = "V" ->
            <<<<e.Current_Main_Branch,
                QNeg(IndependentSourceControlByTime(e))>>>>
       [] OTHER -> <<>>

\* B[r] += q for the pairs of ps, in their order
RECURSIVE AddRows(_, _, _)
AddRows(b, ps, i) ==
  IF i > Len(ps) THEN b
  ELSE AddRows([b EXCEPT ![ps[i][1]] = QAdd(@, ps[i][2])], ps, i + 1)

\* B[r] = q for the pairs of ps, in their order
RECURSIVE SetRows(_, _, _)
SetRows(b, ps, i) ==
  IF i > Len(ps) THEN b
  ELSE SetRows([b EXCEPT ![ps[i][1]] = ps[i][2]], ps, i + 1)

\* MnaFunctions.cpp lines 855-1025, the writes of B: the stamp of an I
\* source assigns (lines 1003-1004), the others accumulate
StampB(b, e, step) ==
  IF FirstChar(e.ElementName) = "I"
    THEN SetRows(b, RhsOf(e, step), 1)
    ELSE AddRows(b, RhsOf(e, step), 1)

\* A[r][c] += q
AddA(m, r, c, q) == [m EXCEPT ![<<r, c>>] = QAdd(@, q)]

\* the four entries of a conductance g between rows a, b and columns
\* c, d
Quad(m, a, b, c, d, g) ==
  AddA(AddA(AddA(AddA(m, a, c, g), a, d, QNeg(g)), b, c, QNeg(g)), b, d, g)

\* the entries of a branch current j flowing from a to b, and of its
\* equation over the nodes c and d
Branch(m, a, b, c, d, j) ==
  AddA(AddA(AddA(AddA(m, a, j, Q(1)), b, j, Q(-1)), j, c, Q(-1)), j, d, Q(1))

\* MnaFunctions.cpp lines 855-1025, the writes of A
StampA(m, e, step) ==
  LET ch == FirstChar(e.ElementName)
      a == e.Node_1
      b == e.Node_2
      c == e.Control_Node_1
      d == e.Control_Node_2
      jx == e.Current_Main_Branch
      jy == e.Current_Control_Branch
  IN CASE ch = "R" -> Quad(m, a, b, a, b, QDiv(Q(1), e.ElementValue))
       [] ch = "L" -> AddA(Branch(m, a, b, a, b, jx), jx, jx,
                           QDiv(e.ElementValue, step))
       [] ch = "C" -> Quad(m, a, b, a, b,
                           QDiv(Q(1), QDiv(step, e.ElementValue)))
       [] ch = "E" ->
            AddA(AddA(Branch(m, a, b, a, b, jx), jx, c, e.ElementValue),
                 jx, d, QNeg(e.ElementValue))
       [] ch = "F" ->
            AddA(AddA(Branch(m, c, d, c, d, jy), a, jy, e.ElementValue),
                 b, jy, QNeg(e.ElementValue))
       [] ch = "G" -> Quad(m, a, b, c, d, e.ElementValue)
       [] ch = "H" ->
            LET x == AddA(AddA(m, a, jx, Q(1)), b, jx, Q(-1))
                y == AddA(AddA(x, c, jy, Q(1)), d, jy, Q(-1))
                z == AddA(AddA(y, jx, c, Q(-1)), jx, d, Q(1))
                w == AddA(AddA(z, jy, c, Q(-1)), jy, d, Q(1))
            IN [w EXCEPT ![<<jx, jy>>] = e.ElementValue]
       [] ch = "V" -> Branch(m, a, b, a, b, jx)
       [] OTHER -> m

\* Mna.cpp lines 89-96 and 137, MnaFunctions.cpp lines 806-836: the first
\* call of SystemOfEquationBackward, at t = 0
SystemBegin ==
  /\ mpc = "made"
  /\ \A k \in 1..Len(NetList) : Followed(NetList[k])
  /\ MaxInternalStep' = 1
  /\ deltaT' = QDiv(QDiv(Q(PSPICE.Step), Q(Internal_Step)), Q(STEPFACTOR))
  /\ A' = [rc \in Window \X Window |-> Q(0)]
  /\ B' = [i \in Window |-> Q(0)]
  /\ NumberOfElements' = 0
  /\ mpc' = "stamps"
  /\ UNCHANGED <<NetListFile, NetList, Current_JX, NumberOfVariables,
                 acessos, pastEnd, PSPICE, NoLinearCircuit, Internal_Step,
                 Tempo_Final>>
  /\ UNCHANGED makeRest

\* MnaFunctions.cpp lines 839-1375: the stamp of one element
SystemElement ==
  /\ mpc = "stamps"
  /\ NetList[NumberOfElements + 1].ElementName # "EndOfNetList"
  /\ LET e == NetList[NumberOfElements + 1]
     IN /\ A' = StampA(A, e, deltaT)
        /\ B' = StampB(B, e, deltaT)
        /\ acessos' = IF FirstChar(e.ElementName) \in {"I", "V"}
                        THEN acessos \cup {DC_VALUE} ELSE acessos
  /\ NumberOfElements' = NumberOfElements + 1
  /\ UNCHANGED <<mpc, NetListFile, NetList, Current_JX, NumberOfVariables,
                 pastEnd, deltaT, PSPICE, MaxInternalStep, NoLinearCircuit,
                 Internal_Step, Tempo_Final>>
  /\ UNCHANGED makeRest

\* MnaFunctions.cpp lines 839 and 1376-1388: the element EndOfNetList
\* ends the loop and A goes to the caller
SystemEnd ==
  /\ mpc = "stamps"
  /\ NetList[NumberOfElements + 1].ElementName = "EndOfNetList"
  /\ mpc' = "stamped"
  /\ UNCHANGED <<NetListFile, NetList, Current_JX, NumberOfElements,
                 NumberOfVariables, acessos, pastEnd, B, deltaT, A, PSPICE,
                 MaxInternalStep, NoLinearCircuit, Internal_Step,
                 Tempo_Final>>
  /\ UNCHANGED makeRest

NextMake ==
  \/ MakeElement
  \/ MakeTran
  \/ MakeUnknown
  \/ MakeReturn
  \/ SystemBegin
  \/ SystemElement
  \/ SystemEnd

SpecMake == InitMake /\ [][NextMake]_vars

\* the places of the netlist that hold a branch-current index
BranchSlots ==
  {s \in (1..Len(NetList)) \X {"Current_Main_Branch",
                               "Current_Control_Branch"} :
     NetList[s[1]][s[2]] # NOT_USER}

\* C27: once MakeNetList has returned, the branch-current indices it gave
\* (Current_Main_Branch, Current_Control_Branch) are pairwise distinct
\* over the netlist, and NumberOfVariables is at least the largest of them
C27_BranchIndicesDistinct ==
  mpc = "made" =>
    /\ \A s1, s2 \in BranchSlots :
         s1 # s2 => NetList[s1[1]][s1[2]] # NetList[s2[1]][s2[2]]
    /\ \A s \in BranchSlots : NetList[s[1]][s[2]] <= NumberOfVariables

\* C30: every index used to access Element.ParametersValue, in
\* ClearNetList, MakeNetList and IndependentSourceControlByTime, is
\* smaller than MAX_NUMBER_OF_PARAMETERS
C30_ParameterIndexInside ==
  \A i \in acessos : i < MAX_NUMBER_OF_PARAMETERS

\* what the pairs of ps bring to row r
RECURSIVE RowSum(_, _, _)
RowSum(ps, r, i) ==
  IF i > Len(ps) THEN Q(0)
  ELSE QAdd(IF ps[i][1] = r THEN ps[i][2] ELSE Q(0), RowSum(ps, r, i + 1))

\* what the elements 1..k of the netlist bring to row r of B
RECURSIVE TotalB(_, _)
TotalB(r, k) ==
  IF k = 0 THEN Q(0)
  ELSE QAdd(TotalB(r, k - 1), RowSum(RhsOf(NetList[k], deltaT), r, 1))

\* C26: when SystemOfEquationBackward returns, every row of B is the sum
\* of what all the elements contribute to it; the stamp of an I source
\* keeps what earlier elements brought to its rows
C26_RhsIsSum ==
  mpc = "stamped" =>
    \A r \in 1..NumberOfVariables : B[r] = TotalB(r, Len(NetList) - 1)

TypeOK ==
  /\ pc \in {"read", "params", "invalid", "trap", "step", "newton",
             "accept", "singular", "nonconv", "done"}
  /\ iteracoes \in 0..(MAX_IT + 1)
  /\ reinicios \in 0..(MaxReinicios + 1)
  /\ primeira \in {0, 1}
=============================================================================
